---- MODULE Spec2Model ----
(***************************************************************************)
(* Model of the Uber Code Generator backend: the streaming and the         *)
(* non-streaming agent pipelines (main.py, orchestrator.py) and the pure   *)
(* helpers of the agents (agents/*.py).                                    *)
(*                                                                         *)
(* Texts are sequences: a prompt is a sequence of characters, a code       *)
(* artifact is a sequence of lines (the empty string is <<>>).  A Python   *)
(* Optional is a sequence of length at most one: None is <<>>, a value x   *)
(* is <<x>>.                                                               *)
(***************************************************************************)
EXTENDS Integers, Sequences, FiniteSets, TLC

VARIABLES
    entry,            \* the entry point of this request
    pc,               \* position of the request handler / generator
    prompt,           \* request.prompt (characters)
    context_code,     \* request.context_code is given (truthy)
    cls_resp,         \* parsed answer of the model to the classifier prompt
    classification,   \* result of ProjectPlannerAgent.classify
    mode,             \* classification.get("mode", "single")
    outer_prompt,     \* enhanced_prompt of generate_code_stream (enclosing scope)
    enhanced_prompt,  \* enhanced_prompt of the nested generate() (its own local)
    gen_prompt,       \* the prompt handed to the generation phase
    code,             \* current code artifact (code / current_code)
    original_code,    \* the artifact that entered the analysis stages
    all_fixes,        \* accumulated fix entries
    workflow_history, \* Orchestrator.workflow_history
    workflow_steps,   \* workflow_steps of the streaming pipeline
    events,           \* the event stream emitted so far
    next_id,          \* source of new_id()
    stage_in,         \* artifact handed to the latest analysis stage call
    last_res,         \* result of the latest analysis stage call
    last_stage,       \* agent label of the latest analysis stage call
    last_file,        \* file of the latest analysis stage call (multi mode)
    fixes_before,     \* all_fixes before the latest analysis stage call
    project_plan,     \* file list (paths) of the Project Plan
    generated_files,  \* dict path -> content, in insertion order
    original_files,   \* copy of generated_files taken before the analysis stages
    code_files,       \* the paths the analysis stages run on
    requests,         \* per generated file: the snippets its request carried
    stage_calls,      \* per analysis stage call in multi mode: stage and file
    file_idx,         \* loop index of the multi-file loops
    stage_idx,        \* index into agent_steps of the multi-file stage loop
    result,           \* the returned / final snapshot
    created_steps,    \* workflow_steps as the generator first built them
    edit_instructions,\* request.edit_instructions (characters)
    api_key,          \* the api_key argument of call_groq_api
    GROQ_API_KEY,     \* settings.GROQ_API_KEY
    response,         \* what the network does with the request, if one is made
    net_calls,        \* number of requests.post calls made
    api_out,          \* outcome of call_api: raised, or the returned text / None
    parse_out,        \* outcome of parse_json_response: raised, or dict / None
    embedded,         \* the JSON object a text was built around, if any
    basic,            \* the dict _basic_scan returned
    wire,             \* the lines a streaming response delivers
    fragments,        \* outcome of a streaming call: raised, fragments yielded
    heap,             \* the Orchestrator objects constructed so far
    runs,             \* per concurrent pipeline run: its frame (locals)
    sessions,         \* the sessions collection: session id -> document
    messages,         \* the messages collection, in insertion order
    handlers          \* per concurrent session request: its frame (locals)

vars ==
    << entry, pc, prompt, context_code, cls_resp, classification, mode,
       outer_prompt, enhanced_prompt, gen_prompt, code, original_code,
       all_fixes, workflow_history, workflow_steps, events, next_id,
       stage_in, last_res, last_stage, last_file, fixes_before,
       project_plan, generated_files, original_files, code_files, requests,
       stage_calls, file_idx, stage_idx, result, created_steps,
       edit_instructions, api_key, GROQ_API_KEY, response, net_calls, api_out,
       parse_out, embedded, basic, wire, fragments, heap, runs, sessions,
       messages, handlers >>

-----------------------------------------------------------------------------
(* Python values *)

None ==
    <<>>

Some(x) ==
    <<x>>

\* Python truthiness of an optional string: not None and not "".
Truthy(opt) ==
    opt # None /\ opt[1] # <<>>

RECURSIVE Concat(_)
\* "".join(chunks)
Concat(chunks) ==
    IF chunks = <<>> THEN <<>> ELSE Head(chunks) \o Concat(Tail(chunks))

\* all sequences over S of length at most n
SeqsUpTo(S, n) ==
    UNION { [1..k -> S] : k \in 0..n }

-----------------------------------------------------------------------------
(* ProjectPlannerAgent: classification *)


\* str.lower() on one character
Lower(c) ==
    CASE c = "A" -> "a"
      [] c = "B" -> "b"
      [] c = "C" -> "c"
      [] c = "D" -> "d"
      [] c = "E" -> "e"
      [] c = "F" -> "f"
      [] c = "G" -> "g"
      [] c = "H" -> "h"
      [] c = "I" -> "i"
      [] c = "J" -> "j"
      [] c = "K" -> "k"
      [] c = "L" -> "l"
      [] c = "M" -> "m"
      [] c = "N" -> "n"
      [] c = "O" -> "o"
      [] c = "P" -> "p"
      [] c = "Q" -> "q"
      [] c = "R" -> "r"
      [] c = "S" -> "s"
      [] c = "T" -> "t"
      [] c = "U" -> "u"
      [] c = "V" -> "v"
      [] c = "W" -> "w"
      [] c = "X" -> "x"
      [] c = "Y" -> "y"
      [] c = "Z" -> "z"
      [] OTHER -> c

\* str.lower()
LowerStr(s) ==
    [i \in 1..Len(s) |-> Lower(s[i])]

\* Python's  sub in s  on strings
Contains(s, sub) ==
    \E i \in 0..(Len(s) - Len(sub)) :
        \A j \in 1..Len(sub) : s[i + j] = sub[j]

\* the keyword table of _heuristic_classify, in table order
multi_signals ==
    << <<"a","p","p">>,
       <<"a","p","p","l","i","c","a","t","i","o","n">>,
       <<"w","e","b","s","i","t","e">>,
       <<"w","e","b"," ","a","p","p">>,
       <<"p","r","o","j","e","c","t">>,
       <<"f","u","l","l","-","s","t","a","c","k">>,
       <<"f","u","l","l","s","t","a","c","k">>,
       <<"f","r","o","n","t","e","n","d">>,
       <<"b","a","c","k","e","n","d">>,
       <<"r","e","s","t"," ","a","p","i">>,
       <<"c","r","u","d">>,
       <<"d","a","s","h","b","o","a","r","d">>,
       <<"l","a","n","d","i","n","g"," ","p","a","g","e">>,
       <<"m","u","l","t","i","p","l","e"," ","f","i","l","e","s">>,
       <<"m","u","l","t","i","-","f","i","l","e">>,
       <<"m","u","l","t","i"," ","f","i","l","e">>,
       <<"w","i","t","h"," ","t","e","s","t","s">>,
       <<"w","i","t","h"," ","d","a","t","a","b","a","s","e">>,
       <<"w","i","t","h"," ","a","u","t","h">>,
       <<"w","i","t","h"," ","c","o","m","p","o","n","e","n","t","s">>,
       <<"w","i","t","h"," ","m","o","d","u","l","e","s">>,
       <<"w","i","t","h"," ","r","o","u","t","e","s">>,
       <<"r","e","a","c","t">>,
       <<"f","l","a","s","k">>,
       <<"d","j","a","n","g","o">>,
       <<"f","a","s","t","a","p","i">>,
       <<"e","x","p","r","e","s","s">>,
       <<"n","e","x","t",".","j","s">>,
       <<"n","e","x","t","j","s">>,
       <<"v","u","e">>,
       <<"a","n","g","u","l","a","r">>,
       <<"s","v","e","l","t","e">>,
       <<"t","o","d","o"," ","a","p","p">>,
       <<"t","o","d","o"," ","a","p","p","l","i","c","a","t","i","o","n">>,
       <<"c","h","a","t"," ","a","p","p">>,
       <<"c","h","a","t"," ","a","p","p","l","i","c","a","t","i","o","n">>,
       <<"e","-","c","o","m","m","e","r","c","e">>,
       <<"e","c","o","m","m","e","r","c","e">>,
       <<"b","l","o","g">>,
       <<"p","o","r","t","f","o","l","i","o">>,
       <<"s","o","c","i","a","l"," ","m","e","d","i","a">>,
       <<"i","n","v","e","n","t","o","r","y">>,
       <<"m","a","n","a","g","e","m","e","n","t"," ","s","y","s","t","e","m">>,
       <<"l","o","g","i","n">>,
       <<"s","i","g","n","u","p">>,
       <<"a","u","t","h","e","n","t","i","c","a","t","i","o","n">> >>

NoReason ==
    [kind |-> "none", signal |-> <<>>]

\* the first signal of the table that occurs in the lower-cased prompt
FirstSignal(lower) ==
    LET hits == { i \in 1..Len(multi_signals) : Contains(lower, multi_signals[i]) }
    IN  IF hits = {} THEN 0
        ELSE CHOOSE i \in hits : \A j \in hits : i <= j

_heuristic_classify(p) ==
    LET lower == LowerStr(p)
        i     == FirstSignal(lower)
    IN  IF i # 0
        THEN [mode |-> "multi", reason |-> [kind |-> "detected", signal |-> multi_signals[i]]]
        ELSE [mode |-> "single", reason |-> NoReason]

\* classify that returns a well-formed model verdict without consulting the
\* heuristic
classify_trust_model(p, parsed) ==
    IF parsed # None /\ parsed[1].mode \in {"single", "multi"}
    THEN parsed[1]
    ELSE _heuristic_classify(p)

\* classify(prompt); parsed is parse_json_response of the model's answer
\* (None when the model is unavailable or its answer has no JSON object).
classify(p, parsed) ==
    LET heuristic == _heuristic_classify(p)
    IN  IF parsed # None /\ parsed[1].mode \in {"single", "multi"}
        THEN IF parsed[1].mode = "multi" THEN parsed[1]
             ELSE IF heuristic.mode = "multi" THEN heuristic
             ELSE parsed[1]
        ELSE _heuristic_classify(p)

\* answers of the model to the classifier prompt, after parse_json_response
ClassifierAnswers ==
    { None,
      Some([mode |-> "single", reason |-> NoReason]),
      Some([mode |-> "multi",  reason |-> [kind |-> "model", signal |-> <<>>]]),
      Some([mode |-> "multi",  reason |-> NoReason]),
      Some([mode |-> "maybe",  reason |-> NoReason]) }

-----------------------------------------------------------------------------
(* Code artifacts and the answers of the model *)

MarkerA ==
    "<!-- a.py -->"

MarkerB ==
    "<!-- b.py -->"

MarkerC ==
    "<!-- c.py -->"

FileMarkers ==
    {MarkerA, MarkerB, MarkerC}

IsMarker(line) ==
    line \in FileMarkers

\* the file-separator markers of an artifact, in order
Markers(c) ==
    SelectSeq(c, IsMarker)

\* the opening-fence test of _strip_markdown_fences: ^```\w*$
\* (a fence of three backquotes is written ~~~ in this model)
IsOpenFence(line) ==
    line \in {"~~~", "~~~python"}

\* CodeGeneratorAgent._strip_markdown_fences
_strip_markdown_fences(lines) ==
    LET l1 == IF lines # <<>> /\ IsOpenFence(Head(lines)) THEN Tail(lines) ELSE lines
        l2 == IF l1 # <<>> /\ l1[Len(l1)] = "~~~" THEN SubSeq(l1, 1, Len(l1) - 1) ELSE l1
    IN  l2

\* CodeGeneratorAgent._mock_generate: a fixed, non-empty template
_mock_generate(p) ==
    <<"def solution(param1, param2):", "    return result">>

\* CodeGeneratorAgent.generate; answer is the text call_api returned (or None)
generate(p, answer) ==
    IF Truthy(answer) THEN _strip_markdown_fences(answer[1]) ELSE _mock_generate(p)

\* texts the model may return to the non-streaming generation call
GenAnswers ==
    { None,
      Some(<<"x = 1">>),
      Some(<<"~~~python", "x = 1", "~~~">>),
      Some(<<"~~~python", "~~~">>),
      Some(<<MarkerA, "x = 1", MarkerB, "x = 2", MarkerC, "x = 3">>) }

\* fixes_applied of a parsed answer: key missing, JSON null, or a list
FixesMissing ==
    [k |-> "missing", v |-> <<>>]

FixesNull ==
    [k |-> "null", v |-> <<>>]

FixesList(l) ==
    [k |-> "list", v |-> l]

\* the fix lists the model may report
FixLists ==
    { <<>>, <<"f2", "f1">>, <<"f1", "f1">> }

FixesChoices ==
    {FixesMissing, FixesNull} \cup { FixesList(l) : l \in FixLists }

\* Python truthiness of result.get('fixes_applied')
TruthyFixes(fa) ==
    fa.k = "list" /\ fa.v # <<>>

\* replacement artifacts the model may return as fixed_code
FixedCodes ==
    { <<"y = 1">>,
      <<MarkerA, "y = 1", MarkerB, "y = 2">> }

FixedCodeChoices(c) ==
    {None, Some(<<>>), Some(c)} \cup { Some(f) : f \in FixedCodes }

\* parsed answers of the model to an analysis prompt about artifact c;
\* None: the gateway was unavailable or parse_json_response returned None
StageAnswers(c) ==
    {None} \cup
    { Some([fixed_code |-> fc, fixes_applied |-> fa]) :
        fc \in FixedCodeChoices(c), fa \in FixesChoices }

\* the exception of a stage agent (len() of a JSON null)
Raised ==
    [raised |-> TRUE, fixed_code |-> None, fixes_applied |-> FixesMissing,
     ai_powered |-> FALSE]

\* the heuristic Stage Result: no fixes, no fixed_code
BasicResult ==
    [raised |-> FALSE, fixed_code |-> None, fixes_applied |-> FixesList(<<>>),
     ai_powered |-> FALSE]

AiResult(parsed) ==
    IF parsed.fixes_applied.k = "null"
    THEN Raised
    ELSE [raised |-> FALSE, fixed_code |-> parsed.fixed_code,
          fixes_applied |-> parsed.fixes_applied, ai_powered |-> TRUE]

_basic_validate(c) ==
    BasicResult

\* a heuristic that rewrites the artifact and reports a fix
_basic_test_with_fix(c) ==
    [raised |-> FALSE, fixed_code |-> Some(<<"try:">> \o c),
     fixes_applied |-> FixesList(<<"f1">>), ai_powered |-> FALSE]

_basic_test(c) ==
    BasicResult

_basic_scan(c) ==
    BasicResult

\* ValidationAgent.validate
validate(c, parsed) ==
    IF parsed # None THEN AiResult(parsed[1]) ELSE _basic_validate(c)

\* TestingAgent.test
test(c, parsed) ==
    IF parsed # None THEN AiResult(parsed[1]) ELSE _basic_test(c)

\* SecurityAgent.scan
scan(c, parsed) ==
    IF parsed # None THEN AiResult(parsed[1]) ELSE _basic_scan(c)

\* the agent call of a stage: validate_code / test_code / secure_code
RunAgent(stage, c, parsed) ==
    CASE stage = "validator" -> validate(c, parsed)
      [] stage = "testing"   -> test(c, parsed)
      [] stage = "security"  -> scan(c, parsed)

NoResult ==
    [raised |-> FALSE, fixed_code |-> None, fixes_applied |-> FixesMissing,
     ai_powered |-> FALSE]

\* a total that counts the entries of all_fixes, not their fixes
SumFixes_entries(fx) ==
    Len(fx)

RECURSIVE SumFixes(_)
\* sum(len(f['fixes']) for f in all_fixes)
SumFixes(fx) ==
    IF fx = <<>> THEN 0 ELSE Len(Head(fx).fixes) + SumFixes(Tail(fx))

-----------------------------------------------------------------------------
(* Requests *)

Str_sort ==
    <<"s", "o", "r", "t">>

Str_App ==
    <<"A", "p", "p">>

\* request.prompt
RequestPrompts ==
    { <<>>, Str_sort, Str_App }

\* request.original_code of /api/edit
EditCodes ==
    { <<>>, <<"x = 1">>, <<MarkerA, "x = 1", MarkerB, "x = 2", MarkerC, "x = 3">> }

\* request.edit_instructions
EditInstructions ==
    { <<>>, <<"f", "i", "x">> }

\* the HTTP endpoints
Endpoints ==
    {"generate", "edit", "stream", "regenerate", "regenerate_stream"}

\* a direct call of _generate_single_file (the streaming endpoint reaches
\* _generate_multi_file itself)
Calls ==
    {"single_file"}

\* no agent call of its own is in progress
\* the variables of concurrent runs and of the session store
sideVars ==
    << heap, runs, sessions, messages, handlers >>

\* no concurrent run and no session request is modelled
SideIdle ==
    /\ heap = <<>>
    /\ runs = <<>>
    /\ sessions = <<>>
    /\ messages = <<>>
    /\ handlers = <<>>

\* no call of the gateway, the interpreter or a heuristic is modelled
GatewayIdle ==
    /\ api_key = None
    /\ GROQ_API_KEY = <<>>
    /\ response = [kind |-> "none", body |-> <<>>]
    /\ net_calls = 0
    /\ api_out = [raised |-> FALSE, value |-> None]
    /\ parse_out = [raised |-> FALSE, value |-> None]
    /\ embedded = None
    /\ basic = <<>>
    /\ wire = <<>>
    /\ fragments = [raised |-> FALSE, yielded |-> <<>>]

UnitIdle ==
    /\ GatewayIdle
    /\ SideIdle

Init ==
    /\ entry \in Endpoints \cup Calls
    /\ pc = IF entry = "single_file" THEN "s_gen" ELSE "request"
    /\ prompt \in (IF entry \in Calls \cup {"regenerate", "regenerate_stream"}
                   THEN {Str_sort}
                   ELSE RequestPrompts)
    /\ context_code \in (IF entry = "stream" THEN BOOLEAN ELSE {FALSE})
    /\ cls_resp = None
    /\ classification = [mode |-> "single", reason |-> NoReason]
    /\ mode = IF entry = "single_file" THEN "single" ELSE "none"
    /\ outer_prompt = "none"
    /\ enhanced_prompt = "unbound"
    /\ gen_prompt = IF entry \in Calls THEN "raw" ELSE "none"
    /\ code = <<>>
    /\ original_code = <<>>
    /\ all_fixes = <<>>
    /\ workflow_history = <<>>
    /\ workflow_steps = <<>>
    /\ events = <<>>
    /\ next_id = 1
    /\ stage_in = <<>>
    /\ last_res = NoResult
    /\ last_stage = "none"
    /\ last_file = ""
    /\ fixes_before = <<>>
    /\ project_plan = <<>>
    /\ generated_files = <<>>
    /\ requests = <<>>
    /\ stage_calls = <<>>
    /\ original_files = <<>>
    /\ code_files = <<>>
    /\ file_idx = 0
    /\ stage_idx = 0
    /\ result = <<>>
    /\ created_steps = <<>>
    /\ edit_instructions \in (IF entry \in {"regenerate", "regenerate_stream"}
                             THEN EditInstructions ELSE {<<>>})
    /\ UnitIdle

reqVars ==
    << entry, prompt, context_code, edit_instructions >>

\* the variables of the agents' own calls (gateway, interpreter, heuristics)
unitVars ==
    << api_key, GROQ_API_KEY, response, net_calls, api_out, parse_out, embedded,
       basic, wire, fragments, sideVars >>

clsVars ==
    << cls_resp, classification, mode, outer_prompt, enhanced_prompt, gen_prompt >>

multiVars ==
    << project_plan, generated_files, original_files, code_files, requests,
       stage_calls, file_idx, stage_idx, last_file >>

streamVars ==
    << clsVars, workflow_steps, events, next_id, multiVars >>

stageVars ==
    << stage_in, last_res, last_stage, fixes_before >>

-----------------------------------------------------------------------------
(* The non-streaming pipeline: Orchestrator.run_workflow and             *)
(* Orchestrator.run_agents_on_code                                        *)

\* the guard of run_workflow / run_agents_on_code on a stage result
wf_applies(res) ==
    Truthy(res.fixed_code) /\ TruthyFixes(res.fixes_applied)

\* wf_code that keeps the artifact it was given
wf_code_keep(c, res) ==
    c

\* code after a stage of run_workflow
wf_code(c, res) ==
    IF wf_applies(res) THEN res.fixed_code[1] ELSE c

\* wf_fixes that puts the newest entry first
wf_fixes_prepend(fx, agent, res) ==
    IF Truthy(res.fixed_code) /\ TruthyFixes(res.fixes_applied)
    THEN << [agent |-> agent, file |-> "", fixes |-> res.fixes_applied.v] >> \o fx
    ELSE fx

\* self.all_fixes after a stage of run_workflow
wf_fixes(fx, agent, res) ==
    IF wf_applies(res)
    THEN Append(fx, [agent |-> agent, file |-> "", fixes |-> res.fixes_applied.v])
    ELSE fx

\* the step validate_code / test_code / secure_code and run_workflow append
\* to workflow_history
WfStep(agent) ==
    [agent |-> agent, status |-> "completed"]

\* the step validate_code / test_code / secure_code append: it carries the
\* stage result as "output" (kept here: whether the model answered)
WfStageStep(agent, res) ==
    [agent |-> agent, status |-> "completed",
     output |-> [ai_powered |-> res.ai_powered]]

\* POST /api/generate up to the call of run_workflow
generate_code ==
    /\ pc = "request" /\ entry = "generate"
    /\ IF prompt = <<>>
       THEN pc' = "rejected"
       ELSE pc' = "wf_generate"
    /\ UNCHANGED << reqVars, unitVars, created_steps, code, original_code, all_fixes, workflow_history, result,
                    streamVars, stageVars >>

\* POST /api/edit up to the call of run_agents_on_code (no updates given)
edit_code ==
    /\ pc = "request" /\ entry = "edit"
    /\ \E oc \in EditCodes :
          IF oc = <<>>
          THEN /\ pc' = "rejected"
               /\ UNCHANGED << code, original_code >>
          ELSE /\ pc' = "wf_validate"
               /\ code' = oc
               /\ original_code' = oc
    /\ UNCHANGED << reqVars, unitVars, created_steps, all_fixes, workflow_history, result, streamVars,
                    stageVars >>

\* run_workflow, step 1: code generation
WfGenerate ==
    /\ pc = "wf_generate"
    /\ \E answer \in GenAnswers :
          /\ code' = generate(prompt, answer)
          /\ original_code' = code'
    /\ workflow_history' = <<WfStep("Code Generator")>>
    /\ all_fixes' = <<>>
    /\ pc' = "wf_validate"
    /\ UNCHANGED << reqVars, unitVars, created_steps, result, streamVars, stageVars >>

\* one analysis stage of run_workflow / run_agents_on_code:
\* validate_code / test_code / secure_code, then the guarded replacement
WfStage(at, stage, agent, next) ==
    /\ pc = at
    /\ \E parsed \in StageAnswers(code) :
          LET res == RunAgent(stage, code, parsed)
          IN  /\ stage_in' = code
              /\ last_res' = res
              /\ last_stage' = agent
              /\ fixes_before' = all_fixes
              /\ IF res.raised
                 THEN /\ pc' = "crashed"
                      /\ UNCHANGED << code, all_fixes, workflow_history >>
                 ELSE /\ pc' = next
                      /\ workflow_history' = Append(workflow_history, WfStageStep(agent, res))
                      /\ code' = wf_code(code, res)
                      /\ all_fixes' = wf_fixes(all_fixes, agent, res)
    /\ UNCHANGED << reqVars, unitVars, created_steps, original_code, result, streamVars >>

WfValidate ==
    WfStage("wf_validate", "validator", "Validator", "wf_test")

WfTest ==
    WfStage("wf_test", "testing", "Testing", "wf_secure")

WfSecure ==
    WfStage("wf_secure", "security", "Security", "wf_return")

\* the snapshot run_workflow / run_agents_on_code return
WfReturn ==
    /\ pc = "wf_return"
    /\ LET code_was_fixed == code # original_code
       IN  result' = [ code           |-> code,
                       original_code  |-> IF code_was_fixed THEN Some(original_code) ELSE None,
                       all_fixes      |-> all_fixes,
                       code_was_fixed |-> code_was_fixed,
                       total_fixes    |-> SumFixes(all_fixes),
                       workflow       |-> workflow_history ]
    /\ pc' = "returned"
    /\ UNCHANGED << reqVars, unitVars, created_steps, code, original_code, all_fixes, workflow_history,
                    streamVars, stageVars >>

-----------------------------------------------------------------------------
(* The event stream of the streaming endpoint *)

\* one emitted event: its type, the pipeline stage it is emitted for ("run"
\* for the run as a whole), the message / tool-call id it carries (0: none)
Ev(type, stage, id, data) ==
    [type |-> type, stage |-> stage, id |-> id, data |-> data]

Step(id) ==
    [id |-> id, status |-> "pending", duration |-> FALSE]

\* workflow_steps[i]["status"] = "active"
Activate(steps, i) ==
    [steps EXCEPT ![i].status = "active"]

\* a completion that records no duration
Complete_without_duration(steps, i) ==
    [steps EXCEPT ![i].status = "complete"]

\* workflow_steps[i]["status"] = "complete"; workflow_steps[i]["duration"] = ...
Complete(steps, i) ==
    [steps EXCEPT ![i].status = "complete", ![i].duration = TRUE]

\* the events process_agent_fixes queues for the fixes of one stage:
\* per fix a tool-call start, args, end, result with a fresh id
RECURSIVE ToolCallEvents(_, _, _)
ToolCallEvents(stage, fixes, id) ==
    IF fixes = <<>> THEN <<>>
    ELSE << Ev("TOOL_CALL_START",  stage, id, Head(fixes)),
            Ev("TOOL_CALL_ARGS",   stage, id, Head(fixes)),
            Ev("TOOL_CALL_END",    stage, id, Head(fixes)),
            Ev("TOOL_CALL_RESULT", stage, id, Head(fixes)) >>
         \o ToolCallEvents(stage, Tail(fixes), id + 1)

\* content events addressed to the message id after the one that was opened
TextEvents_next_message(stage, chunks, id) ==
    [i \in 1..Len(chunks) |-> Ev("TEXT_MESSAGE_CONTENT", stage, id + 1, chunks[i])]

\* the TEXT_MESSAGE_CONTENT events of a chunk stream
TextEvents(stage, chunks, id) ==
    [i \in 1..Len(chunks) |-> Ev("TEXT_MESSAGE_CONTENT", stage, id, chunks[i])]

-----------------------------------------------------------------------------
(* POST /api/generate/stream: generate_code_stream and its generate() *)

\* Orchestrator.classify_prompt: hands the prompt to the planner agent
Orchestrator_classify_prompt(p, parsed) ==
    classify(p, parsed)

\* answers of the classifier model in the pipeline
PipelineClassifierAnswers ==
    { None,
      Some([mode |-> "single", reason |-> NoReason]),
      Some([mode |-> "multi",  reason |-> [kind |-> "model", signal |-> <<>>]]) }

\* the request handler before the response starts streaming
generate_code_stream ==
    /\ pc = "request" /\ entry = "stream"
    /\ IF prompt = <<>>
       THEN /\ pc' = "rejected"
            /\ UNCHANGED outer_prompt
       ELSE /\ pc' = "classify"
            /\ outer_prompt' = IF context_code THEN "with_context" ELSE "raw"
    /\ UNCHANGED << reqVars, unitVars, created_steps, cls_resp, classification, mode, enhanced_prompt,
                    gen_prompt, code, original_code, all_fixes, workflow_history,
                    workflow_steps, events, next_id, stageVars, multiVars, result >>

\* generate(): run-started and the classification step.  enhanced_prompt is
\* assigned in generate(), so it is a local of generate(): it is bound only
\* when the assignment under "multi and context_code" runs.
StreamClassify ==
    /\ pc = "classify"
    /\ \E parsed \in PipelineClassifierAnswers :
          LET c == Orchestrator_classify_prompt(prompt, parsed)
          IN  /\ cls_resp' = parsed
              /\ classification' = c
              /\ mode' = c.mode
              /\ enhanced_prompt' =
                    IF c.mode = "multi" /\ context_code THEN "raw" ELSE "unbound"
              /\ events' = events \o
                    << Ev("RUN_STARTED", "run", 0, "input"),
                       Ev("STEP_STARTED", "classifier", 0, ""),
                       Ev("agent_activity", "classifier", 0, "analyzing"),
                       Ev("STEP_FINISHED", "classifier", 0, ""),
                       Ev("agent_activity", "classifier", 0, "complete"),
                       Ev("STATE_SNAPSHOT", "run", 0, "starting") >>
    /\ pc' = "dispatch"
    /\ UNCHANGED << reqVars, unitVars, created_steps, outer_prompt, gen_prompt, code, original_code, all_fixes,
                    workflow_history, workflow_steps, next_id, stageVars, multiVars,
                    result >>

\* generate(): the call of _generate_multi_file / _generate_single_file reads
\* the local enhanced_prompt; unbound, it raises UnboundLocalError
StreamDispatch ==
    /\ pc = "dispatch"
    /\ IF enhanced_prompt = "unbound"
       THEN /\ pc' = "crashed"
            /\ UNCHANGED gen_prompt
       ELSE /\ pc' = IF mode = "multi" THEN "m_plan" ELSE "s_gen"
            /\ gen_prompt' = enhanced_prompt
    /\ UNCHANGED << reqVars, unitVars, created_steps, cls_resp, classification, mode, outer_prompt,
                    enhanced_prompt, code, original_code, all_fixes, workflow_history,
                    workflow_steps, events, next_id, stageVars, multiVars, result >>

-----------------------------------------------------------------------------
(* _generate_single_file *)

MaxChunks ==
    2

\* the content fragments the streaming gateway yields (never empty)
Chunks ==
    { <<"x = 1">>, <<MarkerA, "x = 1">> }

ChunkStreams ==
    SeqsUpTo(Chunks, MaxChunks)

SingleSteps ==
    << Step("code_gen"), Step("validator"), Step("testing"), Step("security") >>

\* step 1: the code generator, streamed as one text message
SingleGenerate ==
    /\ pc = "s_gen"
    /\ \E chunks \in ChunkStreams :
          LET full_code == Concat(chunks)
              active    == Activate(SingleSteps, 1)
              done      == Complete(active, 1)
          IN  /\ code' = full_code
              /\ original_code' = full_code
              /\ workflow_steps' = done
              /\ events' = events \o
                    << Ev("STEP_STARTED", "code_generator", 0, ""),
                       Ev("workflow_update", "code_generator", 0, active),
                       Ev("agent_activity", "code_generator", 0, "starting"),
                       Ev("TEXT_MESSAGE_START", "code_generator", next_id, "") >>
                    \o TextEvents("code_generator", chunks, next_id) \o
                    << Ev("TEXT_MESSAGE_END", "code_generator", next_id, ""),
                       Ev("STATE_DELTA", "code_generator", 0, full_code),
                       Ev("STEP_FINISHED", "code_generator", 0, ""),
                       Ev("workflow_update", "code_generator", 0, done),
                       Ev("agent_activity", "code_generator", 0, "complete") >>
    /\ next_id' = next_id + 1
    /\ all_fixes' = <<>>
    /\ created_steps' = SingleSteps
    /\ pc' = "s_validate"
    /\ UNCHANGED << reqVars, unitVars, clsVars, workflow_history, stageVars, multiVars, result >>

\* the guard of process_agent_fixes without its fixes_applied half
paf_applies_code_only(res) ==
    Truthy(res.fixed_code)

\* the guard of process_agent_fixes
paf_applies(res) ==
    Truthy(res.fixed_code) /\ TruthyFixes(res.fixes_applied)

\* current_code after process_agent_fixes
paf_code(c, res) ==
    IF paf_applies(res) THEN res.fixed_code[1] ELSE c

\* all_fixes after process_agent_fixes
paf_fixes(fx, agent, res) ==
    IF paf_applies(res)
    THEN Append(fx, [agent |-> agent, file |-> "", fixes |-> res.fixes_applied.v])
    ELSE fx

\* events_to_yield of process_agent_fixes
paf_events(stage, c, res, id) ==
    IF paf_applies(res)
    THEN ToolCallEvents(stage, res.fixes_applied.v, id)
         \o << Ev("code_update", stage, 0, res.fixed_code[1]) >>
    ELSE <<>>

\* the number of new_id() calls of process_agent_fixes
paf_ids(res) ==
    IF paf_applies(res) THEN Len(res.fixes_applied.v) ELSE 0

\* what a stage of _generate_single_file emits before its agent is called
single_stage_opening(stage, active) ==
    << Ev("STEP_STARTED", stage, 0, ""),
       Ev("workflow_update", stage, 0, active),
       Ev("agent_activity", stage, 0, "analyzing") >>

\* single_stage_events with the queued events sent after the stage closed
single_stage_events_late(stage, active, done, work) ==
    << Ev("STEP_STARTED", stage, 0, ""),
       Ev("workflow_update", stage, 0, active),
       Ev("agent_activity", stage, 0, "analyzing"),
       Ev("STEP_FINISHED", stage, 0, ""),
       Ev("workflow_update", stage, 0, done),
       Ev("agent_result", stage, 0, "") >> \o work

\* the events of a stage of _generate_single_file whose agent returned;
\* work is what process_agent_fixes queued
single_stage_events(stage, active, done, work) ==
    single_stage_opening(stage, active) \o work \o
    << Ev("STEP_FINISHED", stage, 0, ""),
       Ev("workflow_update", stage, 0, done),
       Ev("agent_result", stage, 0, "") >>

\* steps 2-4: one analysis stage of _generate_single_file
SingleStage(at, stage, agent, i, next) ==
    /\ pc = at
    /\ \E parsed \in StageAnswers(code) :
          LET res    == RunAgent(stage, code, parsed)
              active == Activate(workflow_steps, i)
              done   == Complete(active, i)
          IN  /\ stage_in' = code
              /\ last_res' = res
              /\ last_stage' = agent
              /\ fixes_before' = all_fixes
              /\ IF res.raised
                 THEN /\ pc' = "crashed"
                      /\ workflow_steps' = active
                      /\ events' = events \o single_stage_opening(stage, active)
                      /\ UNCHANGED << code, all_fixes, next_id >>
                 ELSE /\ pc' = next
                      /\ workflow_steps' = done
                      /\ code' = paf_code(code, res)
                      /\ all_fixes' = paf_fixes(all_fixes, agent, res)
                      /\ next_id' = next_id + paf_ids(res)
                      /\ events' = events \o
                            single_stage_events(stage, active, done,
                                                paf_events(stage, code, res, next_id))
    /\ UNCHANGED << reqVars, unitVars, created_steps, clsVars, original_code, workflow_history, multiVars,
                    result >>

SingleValidate ==
    SingleStage("s_validate", "validator", "Validator", 2, "s_test")

SingleTest ==
    SingleStage("s_test", "testing", "Testing", 3, "s_secure")

SingleSecure ==
    SingleStage("s_secure", "security", "Security", 4, "s_final")

\* run-finished sent without the snapshot before it
final_events_without_snapshot(snapshot) ==
    << Ev("RUN_FINISHED", "run", 0, snapshot) >>

\* the two events that end a run: the full snapshot, then run-finished
final_events(snapshot) ==
    << Ev("STATE_SNAPSHOT", "run", 0, snapshot),
       Ev("RUN_FINISHED", "run", 0, snapshot) >>

\* the final snapshot and run-finished
SingleFinal ==
    /\ pc = "s_final"
    /\ LET code_was_fixed == code # original_code
           snapshot ==
              [ code           |-> code,
                original_code  |-> IF code_was_fixed THEN Some(original_code) ELSE None,
                all_fixes      |-> all_fixes,
                code_was_fixed |-> code_was_fixed,
                total_fixes    |-> SumFixes(all_fixes),
                workflow       |-> workflow_steps ]
       IN  /\ result' = snapshot
           /\ events' = events \o
                 final_events(snapshot)
    /\ pc' = "done"
    /\ UNCHANGED << reqVars, unitVars, created_steps, clsVars, code, original_code, all_fixes, workflow_history,
                    workflow_steps, next_id, stageVars, multiVars >>

-----------------------------------------------------------------------------
(* ProjectPlannerAgent: planning and per-file generation *)

\* _fallback_plan: the file list used when the model gives no plan
_fallback_plan(p) ==
    << "README.md", "requirements.txt", "main.py", "utils.py" >>

\* plan_project; parsed is the "files" list of the parsed answer (paths), or
\* None when the answer could not be parsed
plan_project(p, parsed) ==
    IF parsed # None /\ parsed[1] # <<>> THEN parsed[1] ELSE _fallback_plan(p)

\* the file lists the planner model may answer with
PlanAnswers ==
    { None,
      Some(<<>>),
      Some(<<"a.py", "index.html", "b.py">>),
      Some(<<"a.py", "b.py", "a.py">>) }

\* a Python dict as the sequence of its items in insertion order
DictHas(d, k) ==
    \E i \in 1..Len(d) : d[i].path = k

\* d[k]
DictGet(d, k) ==
    d[CHOOSE i \in 1..Len(d) : d[i].path = k].content

\* d[k] = v
DictSet(d, k, v) ==
    IF DictHas(d, k)
    THEN [i \in 1..Len(d) |->
            IF d[i].path = k THEN [path |-> k, content |-> v] ELSE d[i]]
    ELSE Append(d, [path |-> k, content |-> v])

\* list(d)
DictKeys(d) ==
    [i \in 1..Len(d) |-> d[i].path]

SnippetLines ==
    30

\* the snippet of one generated file: its first 30 lines
snippet(content) ==
    IF Len(content) > SnippetLines
    THEN SubSeq(content, 1, SnippetLines) \o <<"... more lines">>
    ELSE content

\* prev_snippets that leaves out the file generated last
prev_snippets_skip_latest(files) ==
    [i \in 1..(IF files = << >> THEN 0 ELSE Len(files) - 1) |->
        [path |-> files[i].path, snippet |-> snippet(files[i].content)]]

\* prev_snippets of generate_file_stream: one snippet per item of
\* generated_files, in the order of the dict
prev_snippets(files) ==
    [i \in 1..Len(files) |->
        [path |-> files[i].path, snippet |-> snippet(files[i].content)]]

\* the user prompt generate_file_stream sends for file_path
file_request(file_path, files) ==
    [path |-> file_path, previous_files |-> prev_snippets(files)]

\* _strip_fences of main.py
_strip_fences(lines) ==
    IF lines # <<>> /\ Head(lines) \in {"~~~", "~~~python"}
    THEN LET l1 == Tail(lines)
         IN  IF l1 # <<>> /\ l1[Len(l1)] = "~~~"
             THEN SubSeq(l1, 1, Len(l1) - 1) ELSE l1
    ELSE lines

-----------------------------------------------------------------------------
(* _generate_multi_file *)

\* the fragment streams generate_file_stream may yield for one file
FileStreams ==
    { <<>>, << <<"~~~python", "x = 1">>, <<"~~~">> >> }

\* workflow_steps as first built: planning is created active
MultiSteps ==
    << [id |-> "planning", status |-> "active", duration |-> FALSE],
       Step("generating"), Step("validator"), Step("testing"), Step("security") >>

\* agent_steps with the testing stage listed before the validator
agent_steps_testing_first ==
    << [step |-> "testing",   agent |-> "Testing Agent",  ws_idx |-> 4],
       [step |-> "validator", agent |-> "Validator",      ws_idx |-> 3],
       [step |-> "security",  agent |-> "Security Agent", ws_idx |-> 5] >>

\* agent_steps: step id, agent name, index into workflow_steps
agent_steps ==
    << [step |-> "validator", agent |-> "Validator",      ws_idx |-> 3],
       [step |-> "testing",   agent |-> "Testing Agent",  ws_idx |-> 4],
       [step |-> "security",  agent |-> "Security Agent", ws_idx |-> 5] >>

\* the extension a path ends with
Ext(path) ==
    CASE path \in {"main.py", "utils.py", "a.py", "b.py"} -> ".py"
      [] path = "app.js"           -> ".js"
      [] path = "README.md"        -> ".md"
      [] path = "requirements.txt" -> ".txt"
      [] path = "index.html"       -> ".html"
      [] OTHER                     -> ""

code_extensions ==
    {".py", ".js", ".jsx", ".ts", ".tsx"}

\* a filter that lets every file with an extension through
IsCodeFile_any_extension(path) ==
    Ext(path) # ""

\* any(path.endswith(ext) for ext in code_extensions)
IsCodeFile(path) ==
    Ext(path) \in code_extensions

\* the answers of the model to an analysis prompt about one file
FileStageAnswers ==
    { None,
      Some([fixed_code |-> Some(<<"y = 1">>), fixes_applied |-> FixesList(<<"f2", "f1">>)]),
      Some([fixed_code |-> Some(<<"y = 1">>), fixes_applied |-> FixesMissing]),
      Some([fixed_code |-> None, fixes_applied |-> FixesNull]) }

\* the guard of the per-file loop of _generate_multi_file
multi_applies(res) ==
    Truthy(res.fixed_code) /\ TruthyFixes(res.fixes_applied)

\* generated_files after one stage call on file_path
multi_files(files, file_path, res) ==
    IF multi_applies(res) THEN DictSet(files, file_path, res.fixed_code[1]) ELSE files

\* all_fixes after one stage call on file_path
multi_fixes(fx, agent, file_path, res) ==
    IF multi_applies(res)
    THEN Append(fx, [agent |-> agent, file |-> file_path, fixes |-> res.fixes_applied.v])
    ELSE fx

\* Orchestrator.plan_project: hands the prompt to the planner agent
Orchestrator_plan_project(p, parsed) ==
    plan_project(p, parsed)

\* Orchestrator.generate_file_stream: hands file_info and the dict of the
\* files generated so far to the planner agent
Orchestrator_generate_file_stream(file_path, files) ==
    file_request(file_path, files)

\* Orchestrator.validate_file / test_file / secure_file: the stage agent
\* run on the content of one file
Orchestrator_run_file(stage, c, parsed) ==
    RunAgent(stage, c, parsed)

\* step 1: planning
MultiPlan ==
    /\ pc = "m_plan"
    /\ \E parsed \in PlanAnswers :
          LET plan == Orchestrator_plan_project(prompt, parsed)
              done == Complete(MultiSteps, 1)
          IN  /\ project_plan' = plan
              /\ workflow_steps' = done
              /\ events' = events \o
                    << Ev("STEP_STARTED", "planning", 0, ""),
                       Ev("workflow_update", "planning", 0, MultiSteps),
                       Ev("agent_activity", "planning", 0, "analyzing"),
                       Ev("project_plan", "planning", 0, plan),
                       Ev("STEP_FINISHED", "planning", 0, ""),
                       Ev("workflow_update", "planning", 0, done),
                       Ev("agent_activity", "planning", 0, "complete") >>
    /\ all_fixes' = <<>>
    /\ created_steps' = MultiSteps
    /\ pc' = "m_gen_start"
    /\ UNCHANGED << reqVars, unitVars, clsVars, code, original_code, workflow_history, next_id,
                    stageVars, generated_files, original_files, code_files, requests,
                    stage_calls, file_idx, stage_idx, last_file, result >>

\* step 2 begins
MultiGenStart ==
    /\ pc = "m_gen_start"
    /\ workflow_steps' = Activate(workflow_steps, 2)
    /\ events' = events \o
          << Ev("STEP_STARTED", "generating", 0, ""),
             Ev("workflow_update", "generating", 0, workflow_steps') >>
    /\ generated_files' = <<>>
    /\ file_idx' = 1
    /\ pc' = "m_gen"
    /\ UNCHANGED << reqVars, unitVars, created_steps, clsVars, code, original_code, all_fixes, workflow_history,
                    next_id, stageVars, project_plan, original_files, code_files,
                    requests, stage_calls, stage_idx, last_file, result >>

\* step 2, one file of the plan: its request, its streamed text message
MultiGenFile ==
    /\ pc = "m_gen" /\ file_idx <= Len(project_plan)
    /\ \E chunks \in FileStreams :
          LET file_path    == project_plan[file_idx]
              file_content == _strip_fences(Concat(chunks))
          IN  /\ requests' = Append(requests,
                    Orchestrator_generate_file_stream(file_path, generated_files))
              /\ generated_files' = DictSet(generated_files, file_path, file_content)
              /\ events' = events \o
                    << Ev("file_started", "generating", 0, file_path),
                       Ev("agent_activity", "generating", 0, "generating"),
                       Ev("TEXT_MESSAGE_START", "generating", next_id, "") >>
                    \o TextEvents("generating", chunks, next_id) \o
                    << Ev("TEXT_MESSAGE_END", "generating", next_id, ""),
                       Ev("file_completed", "generating", 0, file_path) >>
    /\ next_id' = next_id + 1
    /\ file_idx' = file_idx + 1
    /\ UNCHANGED << reqVars, unitVars, created_steps, clsVars, pc, code, original_code, all_fixes,
                    workflow_history, workflow_steps, stageVars, project_plan,
                    original_files, code_files, stage_calls, stage_idx, last_file,
                    result >>

\* step 2 ends; the code files are selected
MultiGenEnd ==
    /\ pc = "m_gen" /\ file_idx > Len(project_plan)
    /\ workflow_steps' = Complete(workflow_steps, 2)
    /\ events' = events \o
          << Ev("STEP_FINISHED", "generating", 0, ""),
             Ev("workflow_update", "generating", 0, workflow_steps'),
             Ev("agent_activity", "generating", 0, "complete") >>
    /\ original_files' = generated_files
    /\ code_files' = SelectSeq(DictKeys(generated_files), IsCodeFile)
    /\ stage_idx' = 1
    /\ pc' = "m_stage_start"
    /\ UNCHANGED << reqVars, unitVars, created_steps, clsVars, code, original_code, all_fixes, workflow_history,
                    next_id, stageVars, project_plan, generated_files, requests,
                    stage_calls, file_idx, last_file, result >>

\* steps 3-5: an analysis stage begins
MultiStageStart ==
    /\ pc = "m_stage_start"
    /\ LET s == agent_steps[stage_idx]
       IN  /\ workflow_steps' = Activate(workflow_steps, s.ws_idx)
           /\ events' = events \o
                 << Ev("STEP_STARTED", s.step, 0, ""),
                    Ev("workflow_update", s.step, 0, workflow_steps'),
                    Ev("agent_activity", s.step, 0, "analyzing") >>
    /\ file_idx' = 1
    /\ pc' = "m_stage_file"
    /\ UNCHANGED << reqVars, unitVars, created_steps, clsVars, code, original_code, all_fixes, workflow_history,
                    next_id, stageVars, project_plan, generated_files, original_files,
                    code_files, requests, stage_calls, stage_idx, last_file, result >>

\* steps 3-5: the stage agent runs on one code file
MultiStageFile ==
    /\ pc = "m_stage_file" /\ file_idx <= Len(code_files)
    /\ \E parsed \in FileStageAnswers :
          LET s         == agent_steps[stage_idx]
              file_path == code_files[file_idx]
              c         == DictGet(generated_files, file_path)
              res       == Orchestrator_run_file(s.step, c, parsed)
          IN  /\ stage_in' = c
              /\ last_res' = res
              /\ last_stage' = s.agent
              /\ last_file' = file_path
              /\ fixes_before' = all_fixes
              /\ stage_calls' = Append(stage_calls, [stage |-> s.step, file |-> file_path])
              /\ IF res.raised
                 THEN /\ pc' = "crashed"
                      /\ UNCHANGED << generated_files, all_fixes, events, file_idx >>
                 ELSE /\ pc' = "m_stage_file"
                      /\ file_idx' = file_idx + 1
                      /\ generated_files' = multi_files(generated_files, file_path, res)
                      /\ all_fixes' = multi_fixes(all_fixes, s.agent, file_path, res)
                      /\ events' = events \o
                            IF multi_applies(res)
                            THEN << Ev("file_updated", s.step, 0, file_path) >>
                            ELSE <<>>
    /\ UNCHANGED << reqVars, unitVars, created_steps, clsVars, code, original_code, workflow_history,
                    workflow_steps, next_id, project_plan, original_files, code_files,
                    requests, stage_idx, result >>

\* steps 3-5: an analysis stage ends
MultiStageEnd ==
    /\ pc = "m_stage_file" /\ file_idx > Len(code_files)
    /\ LET s == agent_steps[stage_idx]
       IN  /\ workflow_steps' = Complete(workflow_steps, s.ws_idx)
           /\ events' = events \o
                 << Ev("STEP_FINISHED", s.step, 0, ""),
                    Ev("workflow_update", s.step, 0, workflow_steps'),
                    Ev("agent_result", s.step, 0, "") >>
    /\ IF stage_idx = Len(agent_steps)
       THEN /\ pc' = "m_final"
            /\ UNCHANGED stage_idx
       ELSE /\ pc' = "m_stage_start"
            /\ stage_idx' = stage_idx + 1
    /\ UNCHANGED << reqVars, unitVars, created_steps, clsVars, code, original_code, all_fixes, workflow_history,
                    next_id, stageVars, project_plan, generated_files, original_files,
                    code_files, requests, stage_calls, file_idx, last_file, result >>

\* project_files of the final snapshot, one entry per file of the plan
project_files(plan, files, originals) ==
    [i \in 1..Len(plan) |->
        LET path      == plan[i]
            content   == IF DictHas(files, path) THEN DictGet(files, path) ELSE <<>>
            original  == IF DictHas(originals, path)
                         THEN Some(DictGet(originals, path)) ELSE None
            was_fixed == original # None /\ original[1] # content
        IN  [ path |-> path, content |-> content,
              original_content |-> IF was_fixed THEN original ELSE None,
              was_fixed |-> was_fixed ]]

\* the final snapshot and run-finished
MultiFinal ==
    /\ pc = "m_final"
    /\ LET snapshot ==
              [ project_files |-> project_files(project_plan, generated_files, original_files),
                all_fixes     |-> all_fixes,
                total_fixes   |-> SumFixes(all_fixes),
                workflow      |-> workflow_steps ]
       IN  /\ result' = snapshot
           /\ events' = events \o
                 final_events(snapshot)
    /\ pc' = "done"
    /\ UNCHANGED << reqVars, unitVars, created_steps, clsVars, code, original_code, all_fixes, workflow_history,
                    workflow_steps, next_id, stageVars, multiVars >>

-----------------------------------------------------------------------------
-----------------------------------------------------------------------------
(* POST /api/regenerate and POST /api/regenerate/stream *)

\* POST /api/regenerate up to the call of run_workflow(new_prompt)
regenerate_with_edit ==
    /\ pc = "request" /\ entry = "regenerate"
    /\ IF edit_instructions = <<>>
       THEN pc' = "rejected"
       ELSE pc' = "wf_generate"
    /\ UNCHANGED << reqVars, unitVars, created_steps, code, original_code,
                    all_fixes, workflow_history, result, streamVars, stageVars >>

\* POST /api/regenerate/stream: the handler builds new_prompt and the
\* Orchestrator and returns the streaming response; nothing is checked
regenerate_stream ==
    /\ pc = "request" /\ entry = "regenerate_stream"
    /\ pc' = "rs_generate"
    /\ UNCHANGED << reqVars, unitVars, created_steps, code, original_code,
                    all_fixes, workflow_history, result, streamVars, stageVars >>

\* one event of the regenerate stream: its type and its agent or content
RegenEv(type, data) ==
    Ev(type, "run", 0, data)

\* generate(): the code generator part
RegenGenerate ==
    /\ pc = "rs_generate"
    /\ \E chunks \in ChunkStreams :
          /\ code' = Concat(chunks)
          /\ events' = <<RegenEv("start", "Code Generator")>>
                       \o [i \in 1..Len(chunks) |-> RegenEv("chunk", chunks[i])]
                       \o <<RegenEv("agent_complete", "Code Generator")>>
    /\ pc' = "rs_validate"
    /\ UNCHANGED << reqVars, unitVars, created_steps, clsVars, original_code,
                    all_fixes, workflow_history, workflow_steps, next_id,
                    stageVars, multiVars, result >>

\* generate(): one analysis stage; its result is reported in the stream and
\* never applied to the code
RegenStage(at, stage, agent, next) ==
    /\ pc = at
    /\ \E parsed \in StageAnswers(code) :
          LET res == RunAgent(stage, code, parsed)
          IN  IF res.raised
              THEN /\ pc' = "crashed"
                   /\ events' = Append(events, RegenEv("start", agent))
                   /\ UNCHANGED workflow_history
              ELSE /\ pc' = next
                   /\ workflow_history' = Append(workflow_history, WfStageStep(agent, res))
                   /\ events' = events
                         \o <<RegenEv("start", agent), RegenEv("result", agent)>>
                         \o (IF next = "rs_done"
                             THEN <<RegenEv("complete", code)>>
                             ELSE <<>>)
    /\ UNCHANGED << reqVars, unitVars, created_steps, clsVars, code,
                    original_code, all_fixes, workflow_steps, next_id,
                    stageVars, multiVars, result >>

RegenValidate ==
    RegenStage("rs_validate", "validator", "Validator", "rs_test")

RegenTest ==
    RegenStage("rs_test", "testing", "Testing", "rs_secure")

RegenSecure ==
    RegenStage("rs_secure", "security", "Security", "rs_done")

Next ==
    \/ generate_code
    \/ edit_code
    \/ WfGenerate
    \/ WfValidate
    \/ WfTest
    \/ WfSecure
    \/ WfReturn
    \/ generate_code_stream
    \/ StreamClassify
    \/ StreamDispatch
    \/ SingleGenerate
    \/ SingleValidate
    \/ SingleTest
    \/ SingleSecure
    \/ SingleFinal
    \/ MultiPlan
    \/ MultiGenStart
    \/ MultiGenFile
    \/ MultiGenEnd
    \/ MultiStageStart
    \/ MultiStageFile
    \/ MultiStageEnd
    \/ MultiFinal
    \/ regenerate_with_edit
    \/ regenerate_stream
    \/ RegenGenerate
    \/ RegenValidate
    \/ RegenTest
    \/ RegenSecure

Spec ==
    Init /\ [][Next]_vars

----------------------------------------------------------------------------
\* Properties of the event stream

\* the stream of a run has stopped: the generator returned or an exception
\* left it
StreamEnded ==
    pc \in {"done", "crashed"}

\* the stages whose events of the given type were emitted, in emission order
RECURSIVE StagesOf(_, _)
StagesOf(evs, type) ==
    IF evs = << >> THEN << >>
    ELSE IF Head(evs).type = type
         THEN << Head(evs).stage >> \o StagesOf(Tail(evs), type)
         ELSE StagesOf(Tail(evs), type)

\* the step-started / step-finished events of the stream, in emission order
RECURSIVE Lifecycle(_)
Lifecycle(evs) ==
    IF evs = << >> THEN << >>
    ELSE IF Head(evs).type \in {"STEP_STARTED", "STEP_FINISHED"}
         THEN << [type |-> Head(evs).type, stage |-> Head(evs).stage] >>
              \o Lifecycle(Tail(evs))
         ELSE Lifecycle(Tail(evs))

IsPrefix(s, t) ==
    /\ Len(s) <= Len(t)
    /\ SubSeq(t, 1, Len(s)) = s

\* the fixed stage order of a run, by the mode chosen and by where the run
\* was entered
StageOrder ==
    IF mode = "multi"
    THEN << "classifier", "planning", "generating",
            "validator", "testing", "security" >>
    ELSE IF entry = "stream"
         THEN << "classifier", "code_generator", "validator", "testing", "security" >>
         ELSE << "code_generator", "validator", "testing", "security" >>

\* the agents of a workflow history, in order
AgentsOf(h) ==
    [i \in 1..Len(h) |-> h[i].agent]

\* the fixed order of run_workflow's history
WorkflowOrder ==
    IF entry \in {"edit", "regenerate_stream"}
    THEN << "Validator", "Testing", "Security" >>
    ELSE << "Code Generator", "Validator", "Testing", "Security" >>

\* C1 (as the specification states it): once the stream of a started run
\* has stopped, its last event is run-finished or run-error.
C1_StreamEndsWithTerminalEvent ==
    (entry = "stream" /\ StreamEnded /\ events # << >>)
        => events[Len(events)].type \in {"RUN_FINISHED", "RUN_ERROR"}

\* C2: the stages of a run start in the fixed order of the run's mode, each
\* at most once and only after the stage before it has finished; a run that
\* reached run-finished has started and finished every stage of its mode
\* exactly once; a single-file run never starts the planning stage; the
\* non-streaming workflow records its stages in the order generate,
\* validate, test, secure.
C2_StagesInFixedOrder ==
    LET started  == StagesOf(events, "STEP_STARTED")
        finished == StagesOf(events, "STEP_FINISHED")
        life     == Lifecycle(events)
    IN  /\ IsPrefix(started, StageOrder)
        /\ IsPrefix(finished, started)
        /\ \A i \in 1..Len(life) :
              /\ life[i].type = (IF i % 2 = 1 THEN "STEP_STARTED" ELSE "STEP_FINISHED")
              /\ (i + 1) \div 2 <= Len(StageOrder)
              /\ life[i].stage = StageOrder[(i + 1) \div 2]
        /\ (pc = "done" => started = StageOrder /\ finished = StageOrder)
        /\ (mode # "multi" => \A i \in 1..Len(started) : started[i] # "planning")
        /\ IsPrefix(AgentsOf(workflow_history), WorkflowOrder)
        /\ (pc = "returned" => AgentsOf(workflow_history) = WorkflowOrder)

\* C2 witness: a multi-file run entered through the streaming endpoint has
\* finished after starting its six stages.
C2_Witness ==
    /\ entry = "stream"
    /\ pc = "done"
    /\ mode = "multi"
    /\ Len(StagesOf(events, "STEP_STARTED")) = 6
    /\ events[Len(events)].type = "RUN_FINISHED"

\* event i is a stage's step-started / step-finished event
IsLifecycle(i) ==
    events[i].type \in {"STEP_STARTED", "STEP_FINISHED"}

\* event i belongs to a stage and is not a lifecycle event
IsStageEvent(i) ==
    events[i].stage # "run" /\ ~IsLifecycle(i)

\* an event of the given type and stage was emitted before position i
Before(i, type, stage) ==
    \E j \in 1..(i - 1) : events[j].type = type /\ events[j].stage = stage

\* the latest step-started before position i is the one of the given stage
LatestStartIs(i, stage) ==
    \E j \in 1..(i - 1) :
        /\ events[j].type = "STEP_STARTED"
        /\ events[j].stage = stage
        /\ \A k \in (j + 1)..(i - 1) : events[k].type # "STEP_STARTED"

\* event i lies after its stage's step-started and before its step-finished
InsideOwnStage(i) ==
    /\ Before(i, "STEP_STARTED", events[i].stage)
    /\ ~Before(i, "STEP_FINISHED", events[i].stage)

\* the events that carry a stage's work
WorkTypes ==
    {"TEXT_MESSAGE_START", "TEXT_MESSAGE_CONTENT", "TEXT_MESSAGE_END",
     "TOOL_CALL_START", "TOOL_CALL_ARGS", "TOOL_CALL_END", "TOOL_CALL_RESULT",
     "STATE_DELTA", "code_update", "file_updated", "file_started",
     "file_completed", "project_plan"}

\* event i reports that its stage is over
IsClosing(i) ==
    \/ events[i].type = "agent_result"
    \/ events[i].type = "agent_activity" /\ events[i].data = "complete"

\* C3 (as the specification states it): every event that belongs to a
\* stage is emitted after that stage's step-started and before its
\* step-finished.
C3_EveryStageEventInsideItsStage ==
    \A i \in 1..Len(events) : IsStageEvent(i) => InsideOwnStage(i)

\* C3 (amended): the text-message, tool-call, state-delta, code-update and
\* file events of a stage and its opening agent-activity lie between the
\* stage's step-started and step-finished; the stage's agent-result and
\* its completion agent-activity are emitted after its step-finished;
\* every event of a stage, the closing ones included, is emitted before
\* the next stage's step-started, so stages never interleave.
C3_StageEventsBracketed ==
    \A i \in 1..Len(events) :
        IsStageEvent(i) =>
            /\ LatestStartIs(i, events[i].stage)
            /\ (events[i].type \in WorkTypes => InsideOwnStage(i))
            /\ (events[i].type = "agent_activity" /\ ~IsClosing(i)
                    => InsideOwnStage(i))
            /\ (IsClosing(i) => Before(i, "STEP_FINISHED", events[i].stage))

\* C3 witness: a finished single-file run in which a stage sent tool-call
\* events and a code-update, and closed with an agent-result.
C3_Witness ==
    /\ pc = "done"
    /\ mode = "single"
    /\ \E i \in 1..Len(events) : events[i].type = "TOOL_CALL_START"
    /\ \E i \in 1..Len(events) : events[i].type = "code_update"
    /\ \E i \in 1..Len(events) : events[i].type = "agent_result"

----------------------------------------------------------------------------
\* Properties of the analysis stages

\* a stage agent has been called and the call returned a Stage Result
StageReturned ==
    last_stage # "none" /\ ~last_res.raised

\* the artifact the latest stage call was about, as it is now
Artifact ==
    IF mode = "multi" THEN DictGet(generated_files, last_file) ELSE code

\* C4 (as the specification states it): a stage agent call that raises is
\* caught by the orchestrator, so the run is not ended by the exception.
C4_AgentFailureIsCaught ==
    (last_stage # "none" /\ last_res.raised) => pc # "crashed"

\* C5: after a stage whose result has no fixes_applied or an empty one, the
\* artifact is the one the stage was given and the run's fix list has no
\* new entry, in run_workflow / run_agents_on_code and in both streaming
\* generators; the run's final result reports that artifact and that list.
C5_NoOpStageChangesNothing ==
    /\ (StageReturned /\ ~TruthyFixes(last_res.fixes_applied))
          => (Artifact = stage_in /\ all_fixes = fixes_before)
    /\ ((pc = "returned" \/ (pc = "done" /\ mode = "single"))
          => (result.code = code /\ result.all_fixes = all_fixes))

\* C5 witness: a stage returned a non-empty fixed_code without any
\* fixes_applied.
C5_Witness ==
    /\ StageReturned
    /\ last_res.ai_powered
    /\ Truthy(last_res.fixed_code)
    /\ last_res.fixed_code[1] # stage_in
    /\ ~TruthyFixes(last_res.fixes_applied)

SingleFileStageStep ==
    /\ pc \in {"wf_validate", "wf_test", "wf_secure",
               "s_validate", "s_test", "s_secure"}
    /\ pc' # pc

Rank(agent) ==
    CASE agent = "Validator"                        -> 1
      [] agent \in {"Testing", "Testing Agent"}     -> 2
      [] agent \in {"Security", "Security Agent"}   -> 3
      [] OTHER                                      -> 0

\* C7: in every step of a run the fix list only grows, by at most one entry
\* at its end; its labels are in pipeline order (Validator entries before
\* Testing entries before Security entries); a new entry carries the label
\* of the stage that was just run and exactly the fixes_applied list that
\* stage reported, in the reported order and with repetitions kept.
C7_FixListAppendOnly ==
    [][ /\ IsPrefix(all_fixes, all_fixes')
        /\ Len(all_fixes') <= Len(all_fixes) + 1
        /\ \A i, j \in 1..Len(all_fixes') :
              i < j => /\ Rank(all_fixes'[i].agent) >= 1
                       /\ Rank(all_fixes'[i].agent) <= Rank(all_fixes'[j].agent)
        /\ all_fixes' # all_fixes =>
              LET new == all_fixes'[Len(all_fixes')]
              IN  /\ new.agent = last_stage'
                  /\ new.fixes = last_res'.fixes_applied.v ]_vars

\* C7 witness: the validator, the tester and the security stage each added
\* an entry, one of them with the same fix reported twice.
C7_Witness ==
    /\ Len(all_fixes) = 3
    /\ Rank(all_fixes[1].agent) = 1
    /\ Rank(all_fixes[2].agent) = 2
    /\ Rank(all_fixes[3].agent) = 3
    /\ \E i \in 1..3 : all_fixes[i].fixes = <<"f1", "f1">>
    /\ \E i \in 1..3 : all_fixes[i].fixes = <<"f2", "f1">>

\* C8 (as the specification states it): a fixed_code whose file markers
\* differ from those of the artifact the stage was given is not applied:
\* the artifact stays the one the stage was given.
C8_FixedCodeKeepsFileMarkers ==
    ( /\ StageReturned
      /\ Markers(stage_in) # << >>
      /\ Truthy(last_res.fixed_code)
      /\ Markers(last_res.fixed_code[1]) # Markers(stage_in) )
        => Artifact = stage_in

----------------------------------------------------------------------------
\* Properties of multi-file generation

RECURSIVE Dedup(_)
\* the distinct elements of a sequence, in the order of first occurrence
Dedup(s) ==
    IF s = << >> THEN << >>
    ELSE LET d == Dedup(SubSeq(s, 1, Len(s) - 1))
         IN  IF \E i \in 1..Len(d) : d[i] = s[Len(s)] THEN d ELSE Append(d, s[Len(s)])

\* the file-started / file-completed events of the stream, in emission order
RECURSIVE FileEvents(_)
FileEvents(evs) ==
    IF evs = << >> THEN << >>
    ELSE IF Head(evs).type \in {"file_started", "file_completed"}
         THEN << [type |-> Head(evs).type, path |-> Head(evs).data] >>
              \o FileEvents(Tail(evs))
         ELSE FileEvents(Tail(evs))

\* C9: the generation requests of a multi-file run are made in the order
\* of the plan's file list, one per position; a file is completed before
\* the next one is started; the request for position i carries one snippet
\* for each file of the positions before i, in plan order, and none for a
\* file that only occurs at a later position; a finished run has made a
\* request for every position.
C9_FilesGeneratedInPlanOrder ==
    LET fe == FileEvents(events)
    IN  /\ Len(requests) <= Len(project_plan)
        /\ \A i \in 1..Len(requests) :
              /\ requests[i].path = project_plan[i]
              /\ [k \in 1..Len(requests[i].previous_files) |->
                     requests[i].previous_files[k].path]
                     = Dedup(SubSeq(project_plan, 1, i - 1))
        /\ \A k \in 1..Len(fe) :
              /\ (k + 1) \div 2 <= Len(project_plan)
              /\ fe[k].type = (IF k % 2 = 1 THEN "file_started" ELSE "file_completed")
              /\ fe[k].path = project_plan[(k + 1) \div 2]
        /\ (pc = "done" /\ mode = "multi" => Len(requests) = Len(project_plan))

\* C9 witness: four files were generated; the request for the third file
\* carried snippets of the first two and not of the fourth.
C9_Witness ==
    /\ mode = "multi"
    /\ Len(project_plan) = 4
    /\ Len(requests) = 4
    /\ Len(requests[3].previous_files) = 2
    /\ requests[3].previous_files[1].path = project_plan[1]
    /\ requests[3].previous_files[2].path = project_plan[2]
    /\ \A k \in 1..2 : requests[3].previous_files[k].path # project_plan[4]

----------------------------------------------------------------------------
(* ProjectPlannerAgent.classify on its own: one call on a prompt built    *)
(* from a few words, with every answer of the classifier model            *)

\* the number of words of a prompt
MaxWords ==
    2

\* "sort ", "Dash", "board", "VuE"
PromptWords ==
    { <<"s","o","r","t"," ">>, <<"D","a","s","h">>, <<"b","o","a","r","d">>,
      <<"V","u","E">> }

ClassifyPrompts ==
    { Concat(ws) : ws \in SeqsUpTo(PromptWords, MaxWords) }

InitClassify ==
    /\ entry = "classify"
    /\ pc = "cls_call"
    /\ prompt \in ClassifyPrompts
    /\ context_code = FALSE
    /\ cls_resp \in ClassifierAnswers
    /\ classification = [mode |-> "single", reason |-> NoReason]
    /\ mode = "none"
    /\ outer_prompt = "none"
    /\ enhanced_prompt = "unbound"
    /\ gen_prompt = "none"
    /\ code = <<>>
    /\ original_code = <<>>
    /\ all_fixes = <<>>
    /\ workflow_history = <<>>
    /\ workflow_steps = <<>>
    /\ events = <<>>
    /\ next_id = 1
    /\ stage_in = <<>>
    /\ last_res = NoResult
    /\ last_stage = "none"
    /\ last_file = ""
    /\ fixes_before = <<>>
    /\ project_plan = <<>>
    /\ generated_files = <<>>
    /\ requests = <<>>
    /\ stage_calls = <<>>
    /\ original_files = <<>>
    /\ code_files = <<>>
    /\ file_idx = 0
    /\ stage_idx = 0
    /\ result = <<>>
    /\ created_steps = <<>>
    /\ edit_instructions = <<>>
    /\ UnitIdle

\* one call of classify: cls_resp is what parse_json_response made of the
\* model's answer
ClassifyCall ==
    /\ pc = "cls_call"
    /\ classification' = classify(prompt, cls_resp)
    /\ mode' = classification'.mode
    /\ pc' = "cls_done"
    /\ UNCHANGED << reqVars, unitVars, created_steps, cls_resp, outer_prompt, enhanced_prompt, gen_prompt,
                    code, original_code, all_fixes, workflow_history, workflow_steps,
                    events, next_id, stageVars, multiVars, result >>

NextClassify ==
    ClassifyCall

SpecClassify ==
    InitClassify /\ [][NextClassify]_vars

\* a signal of the keyword table occurs in the lower-cased prompt
HeuristicFires(p) ==
    \E i \in 1..Len(multi_signals) : Contains(LowerStr(p), multi_signals[i])

\* the model's answer is a verdict for the given mode
ModelSays(m) ==
    cls_resp # None /\ cls_resp[1].mode = m

\* C10: classify returns single or multi; it returns multi exactly when
\* the model's verdict is multi or a signal of the keyword table occurs in
\* the lower-cased prompt; a multi verdict of the model is returned as it
\* is; when the model says single and a signal occurs, the result's reason
\* names a signal of the table that occurs in the lower-cased prompt.
C10_ClassifyOnlyEscalates ==
    pc = "cls_done" =>
        /\ classification.mode \in {"single", "multi"}
        /\ classification.mode = "multi"
              <=> (ModelSays("multi") \/ HeuristicFires(prompt))
        /\ (ModelSays("multi") => classification = cls_resp[1])
        /\ (ModelSays("single") /\ HeuristicFires(prompt)) =>
              /\ classification.reason.kind = "detected"
              /\ \E i \in 1..Len(multi_signals) :
                    classification.reason.signal = multi_signals[i]
              /\ Contains(LowerStr(prompt), classification.reason.signal)

\* C10 witness: the model said single for the prompt "Dashboard" and the
\* result is multi with the reason naming "dashboard".
C10_Witness ==
    /\ pc = "cls_done"
    /\ prompt = <<"D","a","s","h","b","o","a","r","d">>
    /\ ModelSays("single")
    /\ classification.mode = "multi"
    /\ classification.reason.signal = <<"d","a","s","h","b","o","a","r","d">>

-----------------------------------------------------------------------------
\* The Model Gateway: agents/base.py call_groq_api and config.py is_valid_key

\* a credential of n characters
Str_key(n) ==
    [i \in 1..n |-> "k"]

\* "your-groq-api-key-here"
Str_placeholder ==
    <<"y", "o", "u", "r", "-", "g", "r", "o", "q", "-", "a", "p", "i", "-",
      "k", "e", "y", "-", "h", "e", "r", "e">>

\* Settings.is_valid_key without the comparison against the placeholder
is_valid_key_length_only(key) ==
    key # <<>> /\ Len(key) > 10

\* Settings.is_valid_key
is_valid_key(key) ==
    key # <<>> /\ Len(key) > 10 /\ key # Str_placeholder

\* the expression  api_key if api_key and len(api_key) > 10 else GROQ_API_KEY
\* of call_groq_api and BaseAgent.__init__; k is Optional, env is a str
resolve_key(k, env) ==
    IF Truthy(k) /\ Len(k[1]) > 10 THEN k ELSE Some(env)

\* BaseAgent.__init__: the value of self.api_key
BaseAgent_init(k, env) ==
    resolve_key(k, env)

\* what the try block of call_groq_api does with a response: the exception
\* raised inside it ("none" when it runs to its return) and the value returned
try_post(resp) ==
    CASE resp.kind = "timeout"       -> [exc |-> "Timeout", value |-> None]
      [] resp.kind = "connect_error" -> [exc |-> "ConnectionError", value |-> None]
      [] resp.kind = "status"        -> [exc |-> "none", value |-> None]
      [] resp.kind = "not_json"      -> [exc |-> "JSONDecodeError", value |-> None]
      [] resp.kind = "no_choices"    -> [exc |-> "KeyError", value |-> None]
      [] resp.kind = "empty_choices" -> [exc |-> "IndexError", value |-> None]
      [] resp.kind = "no_message"    -> [exc |-> "KeyError", value |-> None]
      [] resp.kind = "no_content"    -> [exc |-> "KeyError", value |-> None]
      [] resp.kind = "null_content"  -> [exc |-> "TypeError", value |-> None]
      [] resp.kind = "content"       -> [exc |-> "none", value |-> Some(resp.body)]

\* handlers that catch only the exceptions of the requests library
except_requests_only(exc) ==
    exc \in {"Timeout", "ConnectionError"}

\* the handlers  except requests.exceptions.Timeout  and  except Exception
except_Exception(exc) ==
    TRUE

\* call_groq_api(api_key, ...) with settings.GROQ_API_KEY = env, when the
\* network would answer resp: whether it raised, the value returned, the
\* number of requests.post calls, the api_key formatted into the Bearer
\* header (an Optional: f"Bearer {api_key}") and the key that was checked
call_groq_api(k, env, resp) ==
    LET key == resolve_key(k, env)[1]
        o   == try_post(resp)
    IN  IF ~is_valid_key(key)
        THEN [raised |-> FALSE, value |-> None, requests |-> 0, bearer |-> None,
              key |-> key]
        ELSE IF o.exc = "none"
        THEN [raised |-> FALSE, value |-> o.value, requests |-> 1, bearer |-> k,
              key |-> key]
        ELSE IF except_Exception(o.exc)
        THEN [raised |-> FALSE, value |-> None, requests |-> 1, bearer |-> k,
              key |-> key]
        ELSE [raised |-> TRUE, value |-> None, requests |-> 1, bearer |-> k,
              key |-> key]

\* BaseAgent.call_api of an agent constructed with api_key k
call_api(k, env, resp) ==
    call_groq_api(BaseAgent_init(k, env), env, resp)

\* the api_key argument of an agent's constructor
ApiKeys ==
    { None, Some(<<>>), Some(Str_key(3)), Some(Str_key(10)), Some(Str_key(11)),
      Some(Str_placeholder) }

\* the GROQ_API_KEY of the environment
EnvKeys ==
    { <<>>, Str_key(10), Str_key(12), Str_placeholder }

-----------------------------------------------------------------------------
\* The Response Interpreter: agents/base.py BaseAgent.parse_json_response
\*
\* A text is a sequence of tokens [t, v]; v is always a sequence of strings.
\*   "lb" {   "rb" }   "comma" ,   "key" "name":   "null" null   "num" 5
\*   "str"    a JSON string, v its lines (newlines escaped in the text)
\*   "rawstr" a quoted string with raw newlines between its lines
\*   "arr"    an array of strings      "word"  prose without braces
\*   "fence"  a Markdown fence line    "deep"  {"a":{"a": ... 1 ... }} nested
\*            some thousand levels deep

Tok(t, v) ==
    [t |-> t, v |-> v]

LB ==
    Tok("lb", <<>>)

RB ==
    Tok("rb", <<>>)

COMMA ==
    Tok("comma", <<>>)

Key(name) ==
    Tok("key", <<name>>)

JStr(lines) ==
    Tok("str", lines)

\* str.find('{') as a token index, 0 when there is none
find_lb(r) ==
    IF \E i \in 1..Len(r) : r[i].t \in {"lb", "deep"}
    THEN CHOOSE i \in 1..Len(r) :
            /\ r[i].t \in {"lb", "deep"}
            /\ \A j \in 1..(i - 1) : r[j].t \notin {"lb", "deep"}
    ELSE 0

\* str.rfind('}') as a token index, 0 when there is none
rfind_rb(r) ==
    IF \E i \in 1..Len(r) : r[i].t \in {"rb", "deep"}
    THEN CHOOSE i \in 1..Len(r) :
            /\ r[i].t \in {"rb", "deep"}
            /\ \A j \in (i + 1)..Len(r) : r[j].t \notin {"rb", "deep"}
    ELSE 0

\* result[result.find('{'):result.rfind('}')+1]
brace_span(r) ==
    IF find_lb(r) = 0 THEN <<>> ELSE SubSeq(r, find_lb(r), rfind_rb(r))

\* the outcomes of json.loads
LoadsOk(d) ==
    [st |-> "ok", value |-> d]

JSONDecodeError ==
    [st |-> "decode_error", value |-> <<>>]

RecursionError ==
    [st |-> "recursion_error", value |-> <<>>]

\* the tokens json accepts as the value of a member
IsJsonValue(tok) ==
    tok.t \in {"str", "num", "arr", "null"}

\* json.loads from a member name at position i on, d the members read so far;
\* a repeated name keeps its last value
RECURSIVE loads_members(_, _, _)
loads_members(toks, i, d) ==
    IF i + 2 > Len(toks) \/ toks[i].t # "key"
    THEN IF i + 1 <= Len(toks) /\ toks[i].t = "key" /\ toks[i + 1].t = "deep"
         THEN RecursionError
         ELSE JSONDecodeError
    ELSE IF toks[i + 1].t = "deep"
    THEN RecursionError
    ELSE IF ~IsJsonValue(toks[i + 1])
    THEN JSONDecodeError
    ELSE LET d2 == (toks[i].v[1] :> toks[i + 1]) @@ d
         IN  IF toks[i + 2].t = "rb"
             THEN IF i + 2 = Len(toks) THEN LoadsOk(d2) ELSE JSONDecodeError
             ELSE IF toks[i + 2].t = "comma"
             THEN loads_members(toks, i + 3, d2)
             ELSE JSONDecodeError

\* json.loads of a text: the dict, JSONDecodeError, or RecursionError when the
\* scanner meets the deep nesting before anything invalid
loads(toks) ==
    IF toks = <<>>
    THEN JSONDecodeError
    ELSE IF toks[1].t = "deep"
    THEN RecursionError
    ELSE IF toks[1].t # "lb" \/ Len(toks) < 2
    THEN JSONDecodeError
    ELSE IF toks[2].t = "rb"
    THEN IF Len(toks) = 2 THEN LoadsOk(<<>>) ELSE JSONDecodeError
    ELSE loads_members(toks, 2, <<>>)

\* the outcomes of parse_json_response
ParseNone ==
    [raised |-> FALSE, value |-> None]

ParseDict(d) ==
    [raised |-> FALSE, value |-> Some(d)]

ParseRaised ==
    [raised |-> TRUE, value |-> None]

\* result.replace('```json', '').replace('```python', '').replace('```', '')
strip_fences(r) ==
    SelectSeq(r, LAMBDA tok : tok.t # "fence")

\* Strategy 1; done is FALSE when the strategy passes on to the next one
strategy_1(r) ==
    LET clean == strip_fences(r)
        o     == loads(brace_span(clean))
    IN  IF find_lb(clean) # 0 /\ rfind_rb(clean) >= find_lb(clean) /\ o.st = "ok"
        THEN [done |-> TRUE, out |-> ParseDict(o.value)]
        ELSE [done |-> FALSE, out |-> ParseNone]

\* what the two report patterns match after the name: a quoted string
IsQuoted(tok) ==
    tok.t \in {"str", "rawstr"}

\* re.sub(r',\s*"report"\s*:\s*"..."', '', json_str)
RECURSIVE sub_comma_report(_)
sub_comma_report(toks) ==
    IF toks = <<>>
    THEN <<>>
    ELSE IF /\ Len(toks) >= 3
            /\ toks[1].t = "comma"
            /\ toks[2] = Key("report")
            /\ IsQuoted(toks[3])
    THEN sub_comma_report(SubSeq(toks, 4, Len(toks)))
    ELSE <<toks[1]>> \o sub_comma_report(Tail(toks))

\* re.sub(r'"report"\s*:\s*"..."\s*,?', '', json_str)
RECURSIVE sub_report_comma(_)
sub_report_comma(toks) ==
    IF toks = <<>>
    THEN <<>>
    ELSE IF Len(toks) >= 2 /\ toks[1] = Key("report") /\ IsQuoted(toks[2])
    THEN IF Len(toks) >= 3 /\ toks[3].t = "comma"
         THEN sub_report_comma(SubSeq(toks, 4, Len(toks)))
         ELSE sub_report_comma(SubSeq(toks, 3, Len(toks)))
    ELSE <<toks[1]>> \o sub_report_comma(Tail(toks))

\* Strategy 2
strategy_2(r) ==
    LET o == loads(sub_report_comma(sub_comma_report(brace_span(r))))
    IN  IF o.st = "ok"
        THEN [done |-> TRUE, out |-> ParseDict(o.value)]
        ELSE [done |-> FALSE, out |-> ParseNone]

\* re.search of  "name"\s*:\s*<value of a kind in ts>, the value non-empty
\* when the pattern asks for it: the index of the value of the first match,
\* 0 when there is none
search_field(r, name, ts, nonempty) ==
    LET hit(i) == /\ r[i] = Key(name)
                  /\ r[i + 1].t \in ts
                  /\ (nonempty => r[i + 1].v # <<>>)
    IN  IF \E i \in 1..(Len(r) - 1) : hit(i)
        THEN 1 + CHOOSE i \in 1..(Len(r) - 1) :
                    hit(i) /\ \A j \in 1..(i - 1) : ~hit(j)
        ELSE 0

\* one line through  .encode().decode('unicode_escape'): UTF-8 bytes are read
\* back as Latin-1
unicode_escape_line(l) ==
    CASE l = "<e-acute>" -> "<A-tilde><copyright>"
      [] OTHER           -> l

\* decode('unicode_escape') raises UnicodeDecodeError on a truncated escape
unicode_escape_raises(lines) ==
    \E i \in 1..Len(lines) : lines[i] = "\\x"

unicode_escape(lines) ==
    [i \in 1..Len(lines) |-> unicode_escape_line(lines[i])]

\* re.findall(r'"([^"]+)"', ...): the non-empty items
findall_items(items) ==
    SelectSeq(items, LAMBDA s : s # "")

\* Strategy 3: the fields the patterns recover from the whole text
extracted(r) ==
    LET s  == search_field(r, "status", {"str", "rawstr"}, TRUE)
        c  == search_field(r, "fixed_code", {"str", "rawstr"}, FALSE)
        f  == search_field(r, "fixes_applied", {"arr"}, FALSE)
        i  == search_field(r, "issues", {"arr"}, FALSE)
        d1 == IF s = 0 THEN <<>> ELSE ("status" :> JStr(r[s].v))
        d2 == IF c = 0 THEN d1
              ELSE ("fixed_code" :> JStr(unicode_escape(r[c].v))) @@ d1
        d3 == IF f = 0 THEN d2
              ELSE ("fixes_applied" :> Tok("arr", findall_items(r[f].v))) @@ d2
    IN  IF i = 0 THEN d3 ELSE ("issues" :> Tok("arr", findall_items(r[i].v))) @@ d3

\* Strategy 3: an exception inside it and a subset without status and
\* fixed_code both end in the final return None
strategy_3(r) ==
    LET c == search_field(r, "fixed_code", {"str", "rawstr"}, FALSE)
        e == extracted(r)
        truthy(k) == k \in DOMAIN e /\ e[k].v # <<>>
    IN  IF c # 0 /\ unicode_escape_raises(r[c].v)
        THEN ParseNone
        ELSE IF truthy("status") \/ truthy("fixed_code")
        THEN ParseDict(e)
        ELSE ParseNone

\* BaseAgent.parse_json_response(result); the argument is a text or None
parse_json_response(text) ==
    IF ~Truthy(text)
    THEN ParseNone
    ELSE LET r == text[1]
             o == loads(brace_span(r))
         IN  IF find_lb(r) = 0 \/ rfind_rb(r) < find_lb(r)
             THEN ParseNone
             ELSE IF o.st = "ok"
             THEN ParseDict(o.value)
             ELSE IF o.st = "recursion_error"
             THEN ParseRaised
             ELSE IF strategy_1(r).done
             THEN strategy_1(r).out
             ELSE IF strategy_2(r).done
             THEN strategy_2(r).out
             ELSE strategy_3(r)

-----------------------------------------------------------------------------
\* The streaming readers: CodeGeneratorAgent.generate_stream and
\* ProjectPlannerAgent.generate_file_stream

\* the text of _mock_generate as characters
Str_mock ==
    <<"d", "e", "f", " ", "s", "o", "l", "u", "t", "i", "o", "n", "(", "p",
      "a", "r", "a", "m", "1", ",", " ", "p", "a", "r", "a", "m", "2", ")",
      ":", "\n", " ", " ", " ", " ", "r", "e", "t", "u", "r", "n", " ", "r",
      "e", "s", "u", "l", "t">>

chunk_size ==
    20

\* range(0, len(code), chunk_size) / code[i:i+chunk_size]
slices(text, size) ==
    [i \in 1..((Len(text) + size - 1) \div size) |->
        SubSeq(text, (i - 1) * size + 1,
               IF i * size < Len(text) THEN i * size ELSE Len(text))]

\* CodeGeneratorAgent._mock_stream
_mock_stream(p) ==
    slices(Str_mock, chunk_size)

\* ProjectPlannerAgent._fallback_file_content, one text per kind of path
_fallback_file_content(path) ==
    CASE Ext(path) = ".md"         -> <<"# Project", "", "Generated project.", "">>
      [] path = "requirements.txt" -> <<"# Add your dependencies here", "">>
      [] Ext(path) = ".py"         -> <<"# " \o path, "# ", "", "def main():",
                                        "    pass", "", "main()", "">>
      [] OTHER                     -> <<"// " \o path, "// ", "">>

\* the lines response.iter_lines() delivers
\*   "content"   data: {"choices": [{"delta": {"content": v}}]}
\*   "empty"     a blank keep-alive line      "comment"  a line without data:
\*   "bad_json"  data: followed by no JSON    "no_choices"  data: {}
\*   "no_content" a delta without content     "malformed"  data: null
\*   "done"      data: [DONE]                 "transport_error"  the connection
\*               breaks while the next line is read
WireKinds ==
    {"empty", "comment", "bad_json", "no_choices", "no_content", "malformed",
     "done", "transport_error"}

WireItems ==
    { Tok(k, <<>>) : k \in WireKinds } \cup { Tok("content", <<"x = 1">>) }

MaxWire ==
    3

Wires ==
    SeqsUpTo(WireItems, MaxWire)

\* the exception a line raises inside the try block, "none" if it does not
line_exc(item) ==
    CASE item.t = "transport_error" -> "ChunkedEncodingError"
      [] item.t = "malformed"       -> "TypeError"
      [] OTHER                      -> "none"

\* a reader with the inner handler only: except json.JSONDecodeError
stream_except_JSONDecodeError(exc) ==
    exc = "JSONDecodeError"

\* the outer  except Exception  of both readers
stream_except_Exception(exc) ==
    TRUE

\* the body of an exception handler that yields the fallback fb
stream_handler(exc, fb) ==
    IF stream_except_Exception(exc)
    THEN [raised |-> FALSE, yielded |-> fb]
    ELSE [raised |-> TRUE, yielded |-> <<>>]

\* for line in response.iter_lines(): from line i on
RECURSIVE iter_lines(_, _, _)
iter_lines(w, i, fb) ==
    IF i > Len(w) \/ w[i].t = "done"
    THEN [raised |-> FALSE, yielded |-> <<>>]
    ELSE IF line_exc(w[i]) # "none"
    THEN stream_handler(line_exc(w[i]), fb)
    ELSE LET rest == iter_lines(w, i + 1, fb)
         IN  IF w[i].t = "content"
             THEN [raised |-> rest.raised, yielded |-> <<w[i].v>> \o rest.yielded]
             ELSE rest

\* the try/except both readers share; fb is what the fallback yields
read_stream(resp, w, fb) ==
    CASE resp.kind = "connect_error" -> stream_handler("ConnectionError", fb)
      [] resp.kind = "status"        -> [raised |-> FALSE, yielded |-> fb]
      [] resp.kind = "stream"        -> iter_lines(w, 1, fb)

\* CodeGeneratorAgent.generate_stream(prompt)
generate_stream(p, resp, w) ==
    read_stream(resp, w, _mock_stream(p))

\* ProjectPlannerAgent.generate_file_stream(prompt, file_info, ...)
generate_file_stream(path, resp, w) ==
    read_stream(resp, w, <<_fallback_file_content(path)>>)

\* the paths of the file being generated
StreamPaths ==
    {"a.py", "README.md", "requirements.txt", "app.js"}

StreamResponses ==
    { [kind |-> k, body |-> <<>>] : k \in {"connect_error", "status", "stream"} }

InitStream ==
    /\ entry \in {"generate_stream", "generate_file_stream"}
    /\ pc = "stream_call"
    /\ code = <<>>
    /\ api_key = None
    /\ GROQ_API_KEY = <<>>
    /\ response \in StreamResponses
    /\ wire \in (IF response.kind = "stream" THEN Wires ELSE {<<>>})
    /\ last_file \in (IF entry = "generate_file_stream" THEN StreamPaths ELSE {""})
    /\ net_calls = 0
    /\ api_out = [raised |-> FALSE, value |-> None]
    /\ parse_out = [raised |-> FALSE, value |-> None]
    /\ embedded = None
    /\ basic = <<>>
    /\ fragments = [raised |-> FALSE, yielded |-> <<>>]
    /\ SideIdle

\* the consumer drains the generator
StreamRead ==
    /\ pc = "stream_call"
    /\ fragments' = IF entry = "generate_stream"
                    THEN generate_stream(prompt, response, wire)
                    ELSE generate_file_stream(last_file, response, wire)
    /\ net_calls' = net_calls + 1
    /\ pc' = "stream_done"
    /\ UNCHANGED << reqVars, clsVars, code, original_code, all_fixes,
                    workflow_history, workflow_steps, events, next_id,
                    stageVars, multiVars, result, created_steps, api_key,
                    GROQ_API_KEY, response, api_out, parse_out, embedded,
                    basic, wire, sideVars >>

-----------------------------------------------------------------------------
\* Texts handed to parse_json_response: a body with prose or fences around it

\* syntactically valid JSON objects
JsonBodies ==
    { <<LB, RB>>,
      <<LB, Key("mode"), JStr(<<"multi">>), RB>>,
      <<LB, Key("status"), JStr(<<"passed">>), COMMA,
        Key("score"), Tok("num", <<"5">>), RB>>,
      <<LB, Key("status"), JStr(<<"fixed">>), COMMA,
        Key("fixed_code"), JStr(<<"<e-acute>", "y">>), COMMA,
        Key("fixes_applied"), Tok("arr", <<"f1", "">>), COMMA,
        Key("status"), JStr(<<"passed">>), RB>> }

\* bodies json.loads rejects, and bodies without braces
OtherBodies ==
    { <<>>,
      <<Key("status"), JStr(<<"passed">>)>>,
      <<Tok("deep", <<>>)>>,
      <<LB, Key("status"), JStr(<<"passed">>), Tok("fence", <<"~~~json">>), RB>>,
      <<LB, Key("status"), JStr(<<"passed">>), COMMA,
        Key("report"), Tok("rawstr", <<"a", "b">>), RB>>,
      <<LB, Key("report"), Tok("rawstr", <<"a", "b">>), COMMA,
        Key("status"), JStr(<<"passed">>), RB>>,
      <<LB, Key("status"), Tok("rawstr", <<"pa", "ss">>), COMMA, Key("score"), RB>>,
      <<LB, Key("fixed_code"), JStr(<<"<e-acute>", "y">>), COMMA, Key("x"), RB>>,
      <<LB, Key("status"), JStr(<<"ok">>), COMMA,
        Key("fixed_code"), JStr(<<"a", "\\x">>), COMMA, Key("x"), RB>>,
      <<LB, Key("fixes_applied"), Tok("arr", <<"a", "">>), COMMA, Key("x"), RB>>,
      <<LB, Key("status"), JStr(<<>>), COMMA,
        Key("fixed_code"), JStr(<<>>), COMMA, Key("x"), RB>>,
      <<LB, Key("x"), Tok("deep", <<>>), RB>> }

\* what stands before the body: nothing, prose, a fence, prose with braces
Prefixes ==
    { <<>>,
      <<Tok("word", <<"Here is the result:">>)>>,
      <<Tok("fence", <<"~~~json">>)>>,
      <<Tok("word", <<"Use">>), LB, Tok("word", <<"x">>), RB,
        Tok("word", <<"here:">>)>> }

\* what stands after the body
Suffixes ==
    { <<>>,
      <<Tok("fence", <<"~~~">>)>>,
      <<Tok("word", <<"and then a set">>), LB, Tok("word", <<"1">>), RB>> }

\* the dict a valid JSON object denotes
dict_of(body) ==
    loads(body).value

InitParse ==
    /\ entry = "parse"
    /\ pc = "parse_call"
    /\ code = <<>>
    /\ api_key = None
    /\ GROQ_API_KEY = <<>>
    /\ response = [kind |-> "none", body |-> <<>>]
    /\ net_calls = 0
    /\ \/ /\ api_out = [raised |-> FALSE, value |-> None]
          /\ embedded = None
       \/ \E body \in JsonBodies \cup OtherBodies, pre \in Prefixes, suf \in Suffixes :
             /\ api_out = [raised |-> FALSE, value |-> Some(pre \o body \o suf)]
             /\ embedded = IF body \in JsonBodies THEN Some(dict_of(body)) ELSE None
    /\ parse_out = [raised |-> FALSE, value |-> None]
    /\ basic = <<>>
    /\ wire = <<>>
    /\ fragments = [raised |-> FALSE, yielded |-> <<>>]
    /\ SideIdle

\* parsed = self.parse_json_response(result)
ParseCall ==
    /\ pc = "parse_call"
    /\ parse_out' = parse_json_response(api_out.value)
    /\ pc' = "parse_done"
    /\ UNCHANGED << reqVars, clsVars, code, original_code, all_fixes,
                    workflow_history, workflow_steps, events, next_id,
                    stageVars, multiVars, result, created_steps, api_key,
                    GROQ_API_KEY, response, net_calls, api_out, embedded,
                    basic, wire, fragments, sideVars >>

-----------------------------------------------------------------------------
\* The heuristic security scan: SecurityAgent._basic_scan on the characters
\* of the code

\* one row of the table
Pattern(chars, severity, type) ==
    [pattern |-> chars, severity |-> severity, type |-> type]

\* the table of _basic_scan, in table order
dangerous_patterns ==
    <<
       Pattern(<<"e", "v", "a", "l", "(">>,
               "CRITICAL", "Code Injection"),
       Pattern(<<"e", "x", "e", "c", "(">>,
               "CRITICAL", "Code Injection"),
       Pattern(<<"p", "i", "c", "k", "l", "e", ".", "l", "o", "a", "d", "s", "(">>,
               "HIGH", "Deserialization"),
       Pattern(<<"o", "s", ".", "s", "y", "s", "t", "e", "m", "(">>,
               "HIGH", "Command Injection"),
       Pattern(<<"s", "u", "b", "p", "r", "o", "c", "e", "s", "s", ".", "c", "a", "l", "l",
  "(">>,
               "MEDIUM", "Command Injection"),
       Pattern(<<"s", "h", "e", "l", "l", "=", "T", "r", "u", "e">>,
               "HIGH", "Command Injection"),
       Pattern(<<"p", "a", "s", "s", "w", "o", "r", "d", " ", "=">>,
               "MEDIUM", "Hardcoded Secret"),
       Pattern(<<"a", "p", "i", "_", "k", "e", "y", " ", "=">>,
               "MEDIUM", "Hardcoded Secret"),
       Pattern(<<"s", "e", "c", "r", "e", "t", " ", "=">>,
               "MEDIUM", "Hardcoded Secret") >>

\* pattern.lower() in code.lower()
occurs(p, c) ==
    Contains(LowerStr(c), LowerStr(p.pattern))

\* the vulnerabilities list: one entry per row whose pattern occurs
vulnerabilities(c) ==
    SelectSeq(dangerous_patterns, LAMBDA p : occurs(p, c))

\* a risk score without the cap
risk_score_uncapped(n) ==
    n * 25

\* min(len(vulnerabilities) * 25, 100)
risk_score(n) ==
    IF n * 25 < 100 THEN n * 25 ELSE 100

risk_level(score) ==
    IF score < 25 THEN "LOW"
    ELSE IF score < 50 THEN "MEDIUM"
    ELSE IF score < 75 THEN "HIGH"
    ELSE "CRITICAL"

\* the dict _basic_scan returns
_basic_scan_dict(c) ==
    LET v == vulnerabilities(c)
    IN  [status          |-> IF v = <<>> THEN "secure" ELSE "vulnerabilities_found",
         risk_level      |-> risk_level(risk_score(Len(v))),
         risk_score      |-> risk_score(Len(v)),
         vulnerabilities |-> v,
         fixes_applied   |-> <<>>,
         fixed_code      |-> None]

\* EVAL(s)\n
Piece_EVAL ==
    <<"E", "V", "A", "L", "(", "s", ")", "\n">>

\* eval(s)\n
Piece_eval ==
    <<"e", "v", "a", "l", "(", "s", ")", "\n">>

\* password = "x"\n
Piece_password ==
    <<"p", "a", "s", "s", "w", "o", "r", "d", " ", "=", " ", "\"", "x", "\"",
      "\n">>

\* x = 1\n
Piece_plain ==
    <<"x", " ", "=", " ", "1", "\n">>

\* subprocess.call(c, shell=True); os.system(c); secret = api_key = 1\n
Piece_shell ==
    <<"s", "u", "b", "p", "r", "o", "c", "e", "s", "s", ".", "c", "a", "l",
      "l", "(", "c", ",", " ", "s", "h", "e", "l", "l", "=", "T", "r", "u",
      "e", ")", ";", " ", "o", "s", ".", "s", "y", "s", "t", "e", "m", "(",
      "c", ")", ";", " ", "s", "e", "c", "r", "e", "t", " ", "=", " ", "a",
      "p", "i", "_", "k", "e", "y", " ", "=", " ", "1", "\n">>

\* exec(pickle.loads(b))\n
Piece_exec ==
    <<"e", "x", "e", "c", "(", "p", "i", "c", "k", "l", "e", ".", "l", "o",
      "a", "d", "s", "(", "b", ")", ")", "\n">>

ScanPieces ==
    {Piece_EVAL, Piece_eval, Piece_password, Piece_plain, Piece_shell, Piece_exec}

MaxPieces ==
    2

\* the codes the heuristic is run on
ScanCodes ==
    { Concat(ps) : ps \in SeqsUpTo(ScanPieces, MaxPieces) }

InitScan ==
    /\ entry = "basic_scan"
    /\ pc = "scan_call"
    /\ code \in ScanCodes
    /\ api_key = None
    /\ GROQ_API_KEY = <<>>
    /\ response = [kind |-> "none", body |-> <<>>]
    /\ net_calls = 0
    /\ api_out = [raised |-> FALSE, value |-> None]
    /\ parse_out = [raised |-> FALSE, value |-> None]
    /\ embedded = None
    /\ basic = <<>>
    /\ wire = <<>>
    /\ fragments = [raised |-> FALSE, yielded |-> <<>>]
    /\ SideIdle

\* basic = self._basic_scan(code)
BasicScan ==
    /\ pc = "scan_call"
    /\ basic' = _basic_scan_dict(code)
    /\ pc' = "scan_done"
    /\ UNCHANGED << reqVars, clsVars, code, original_code, all_fixes,
                    workflow_history, workflow_steps, events, next_id,
                    stageVars, multiVars, result, created_steps, api_key,
                    GROQ_API_KEY, response, net_calls, api_out, parse_out,
                    embedded, wire, fragments, sideVars >>

-----------------------------------------------------------------------------
\* The agents' own calls as a specification: one call of a stage agent, of
\* the interpreter, of the heuristic scan or of a streaming reader per
\* behaviour

\* no request is being served by the pipeline
PipelineIdle ==
    /\ context_code = FALSE
    /\ cls_resp = None
    /\ classification = [mode |-> "single", reason |-> NoReason]
    /\ mode = "none"
    /\ outer_prompt = "none"
    /\ enhanced_prompt = "unbound"
    /\ gen_prompt = "none"
    /\ original_code = <<>>
    /\ all_fixes = <<>>
    /\ workflow_history = <<>>
    /\ workflow_steps = <<>>
    /\ events = <<>>
    /\ next_id = 1
    /\ stage_in = <<>>
    /\ last_res = NoResult
    /\ last_stage = "none"
    /\ fixes_before = <<>>
    /\ project_plan = <<>>
    /\ generated_files = <<>>
    /\ requests = <<>>
    /\ stage_calls = <<>>
    /\ original_files = <<>>
    /\ code_files = <<>>
    /\ file_idx = 0
    /\ stage_idx = 0
    /\ result = <<>>
    /\ created_steps = <<>>
    /\ edit_instructions = <<>>

\* a well-formed answer to an analysis prompt
AnswerFixed ==
    <<LB, Key("status"), JStr(<<"fixed">>), COMMA,
      Key("fixed_code"), JStr(<<"y = 1">>), COMMA,
      Key("fixes_applied"), Tok("arr", <<"f1">>), RB>>

\* the contents the model may return to an analysis prompt
AgentTexts ==
    { <<>>,
      <<Tok("word", <<"Looks good.">>)>>,
      <<LB, RB>>,
      <<LB, Key("fixes_applied"), Tok("null", <<>>), RB>>,
      <<Tok("word", <<"Here:">>)>> \o AnswerFixed,
      <<Tok("deep", <<>>)>> }

\* what the network does with one request
Responses ==
    { [kind |-> k, body |-> <<>>] :
        k \in {"timeout", "connect_error", "status", "not_json", "no_choices",
               "empty_choices", "no_message", "no_content", "null_content"} }
    \cup { [kind |-> "content", body |-> t] : t \in AgentTexts }

\* the artifact a stage agent is asked about
AgentCode ==
    <<"x = 1">>

InitAgent ==
    /\ entry = "agent"
    /\ pc = "agent_call"
    /\ code = AgentCode
    /\ api_key \in ApiKeys
    /\ GROQ_API_KEY \in EnvKeys
    /\ response \in Responses
    /\ net_calls = 0
    /\ api_out = [raised |-> FALSE, value |-> None]
    /\ parse_out = ParseNone
    /\ embedded = None
    /\ basic = <<>>
    /\ wire = <<>>
    /\ fragments = [raised |-> FALSE, yielded |-> <<>>]
    /\ SideIdle

\* one direct call of call_groq_api, the function the agents package exports
InitGateway ==
    /\ entry = "gateway"
    /\ pc = "gateway_call"
    /\ code = <<>>
    /\ api_key \in ApiKeys
    /\ GROQ_API_KEY \in EnvKeys
    /\ response \in Responses
    /\ net_calls = 0
    /\ api_out = [raised |-> FALSE, value |-> None]
    /\ parse_out = ParseNone
    /\ embedded = None
    /\ basic = <<>>
    /\ wire = <<>>
    /\ fragments = [raised |-> FALSE, yielded |-> <<>>]
    /\ SideIdle

InitAgents ==
    \/ PipelineIdle /\ prompt = <<>> /\ last_file = "" /\ InitAgent
    \/ PipelineIdle /\ prompt = <<>> /\ last_file = "" /\ InitGateway
    \/ PipelineIdle /\ prompt = Str_sort /\ InitStream
    \/ PipelineIdle /\ prompt = <<>> /\ last_file = "" /\ InitParse
    \/ PipelineIdle /\ prompt = <<>> /\ last_file = "" /\ InitScan

\* result.get('fixed_code') and result.get('fixes_applied') of a parsed
\* answer, as the stage agents and the pipeline read them; None when the dict
\* is absent or empty (if parsed:). The answers of the model carry a list,
\* null or no fixes_applied member
stage_answer(p) ==
    IF p = None \/ p[1] = <<>>
    THEN None
    ELSE LET d == p[1]
         IN  Some([fixed_code |->
                      IF "fixed_code" \in DOMAIN d /\ d["fixed_code"].t = "str"
                      THEN Some(d["fixed_code"].v)
                      ELSE None,
                   fixes_applied |->
                      IF "fixes_applied" \notin DOMAIN d
                      THEN FixesMissing
                      ELSE IF d["fixes_applied"].t = "arr"
                      THEN FixesList(d["fixes_applied"].v)
                      ELSE FixesNull])

\* validate(code) / test(code) / scan(code) of an agent constructed with
\* api_key: call_api, parse_json_response, then the parsed or heuristic branch
AgentRun(stage) ==
    /\ pc = "agent_call"
    /\ LET a == call_api(api_key, GROQ_API_KEY, response)
           p == IF a.raised THEN ParseRaised ELSE parse_json_response(a.value)
       IN  /\ api_out' = [raised |-> a.raised, value |-> a.value]
           /\ net_calls' = net_calls + a.requests
           /\ parse_out' = p
           /\ last_res' = IF p.raised
                          THEN Raised
                          ELSE RunAgent(stage, code, stage_answer(p.value))
    /\ last_stage' = stage
    /\ pc' = "agent_done"
    /\ UNCHANGED << reqVars, clsVars, code, original_code, all_fixes,
                    workflow_history, workflow_steps, events, next_id, stage_in,
                    fixes_before, multiVars, result, created_steps,
                    api_key, GROQ_API_KEY, response, embedded, basic, wire,
                    fragments, sideVars >>

ValidatorRun ==
    AgentRun("validator")

TestingRun ==
    AgentRun("testing")

SecurityRun ==
    AgentRun("security")

\* call_groq_api(api_key, system_prompt, user_prompt): what it returned,
\* what it sent and which key it had checked
GatewayCall ==
    /\ pc = "gateway_call"
    /\ LET a == call_groq_api(api_key, GROQ_API_KEY, response)
       IN  /\ api_out' = [raised |-> a.raised, value |-> a.value,
                          bearer |-> a.bearer, key |-> a.key]
           /\ net_calls' = net_calls + a.requests
    /\ pc' = "gateway_done"
    /\ UNCHANGED << reqVars, clsVars, code, original_code, all_fixes,
                    workflow_history, workflow_steps, events, next_id,
                    stageVars, multiVars, result, created_steps, api_key,
                    GROQ_API_KEY, response, parse_out, embedded, basic, wire,
                    fragments, sideVars >>

NextAgents ==
    \/ GatewayCall
    \/ ValidatorRun
    \/ TestingRun
    \/ SecurityRun
    \/ StreamRead
    \/ ParseCall
    \/ BasicScan

SpecAgents ==
    InitAgents /\ [][NextAgents]_vars

-----------------------------------------------------------------------------
\* Claims about the agents' own calls

\* the credential call_groq_api checks for an agent constructed with api_key
Credential ==
    resolve_key(BaseAgent_init(api_key, GROQ_API_KEY), GROQ_API_KEY)[1]

\* empty, at most 10 characters long, or the placeholder
FailsValidityCheck(key) ==
    key = <<>> \/ Len(key) <= 10 \/ key = Str_placeholder

\* C11: when the credential fails the validity check (empty, at most 10
\* characters, or the placeholder), the gateway returns None without making a
\* network request, and the validator, tester and security agents each return
\* their heuristic Stage Result with ai_powered false
C11_InvalidCredentialFallsBack ==
    (pc = "agent_done" /\ FailsValidityCheck(Credential))
        => /\ api_out = [raised |-> FALSE, value |-> None]
           /\ net_calls = 0
           /\ last_res = BasicResult
           /\ last_res.ai_powered = FALSE

C11_Witness ==
    /\ pc = "agent_done"
    /\ last_stage = "security"
    /\ api_key = None
    /\ Credential = Str_placeholder
    /\ response.kind = "content"
    /\ net_calls = 0
    /\ last_res.ai_powered = FALSE

\* the network behaviours that give no content: a transport error, a timeout,
\* a non-200 status, a 200 body without the choices/message/content structure
NoContentKinds ==
    {"connect_error", "timeout", "status", "not_json", "no_choices",
     "empty_choices", "no_message", "no_content", "null_content"}

\* C12: the non-streaming gateway call never raises to its caller; a
\* transport error, a timeout, a non-200 status and a 200 response without
\* the expected structure each yield None; one call makes at most one
\* network attempt
C12_GatewayNeverRaises ==
    pc = "agent_done"
        => /\ ~api_out.raised
           /\ net_calls <= 1
           /\ (response.kind \in NoContentKinds => api_out.value = None)

C12_Witness ==
    /\ pc = "agent_done"
    /\ ~FailsValidityCheck(Credential)
    /\ response.kind = "null_content"
    /\ net_calls = 1
    /\ api_out = [raised |-> FALSE, value |-> None]

\* the canned content of the reader that ran
Fallback ==
    IF entry = "generate_stream"
    THEN _mock_stream(prompt)
    ELSE <<_fallback_file_content(last_file)>>

\* the contents of the content lines among the first n lines of the wire
ContentOf(n) ==
    LET head == SelectSeq(SubSeq(wire, 1, n), LAMBDA item : item.t = "content")
    IN  [i \in 1..Len(head) |-> head[i].v]

\* line i is the first line that ends the real stream
FirstEnd(i) ==
    /\ i \in 1..Len(wire)
    /\ wire[i].t \in {"done", "transport_error", "malformed"}
    /\ \A j \in 1..(i - 1) : wire[j].t \notin {"done", "transport_error", "malformed"}

\* C13: the streaming gateway call yields finitely many text fragments and
\* never raises to the consumer; a non-success status, a transport error
\* before the first fragment or after some fragments end the real stream and
\* are followed by the canned fallback content; the stream stops at [DONE]
C13_StreamNeverRaises ==
    pc = "stream_done"
        => /\ ~fragments.raised
           /\ (response.kind \in {"status", "connect_error"}
                 => fragments.yielded = Fallback)
           /\ \A i \in 1..Len(wire) :
                 /\ (FirstEnd(i) /\ wire[i].t = "transport_error")
                       => fragments.yielded = ContentOf(i - 1) \o Fallback
                 /\ (FirstEnd(i) /\ wire[i].t = "done")
                       => fragments.yielded = ContentOf(i - 1)

\* a transport error after a fragment was yielded, before a [DONE] line
C13_Witness ==
    /\ pc = "stream_done"
    /\ entry = "generate_stream"
    /\ Len(wire) = 3
    /\ wire[1].t = "content"
    /\ wire[2].t = "transport_error"
    /\ wire[3].t = "done"
    /\ Len(fragments.yielded) = 4
    /\ fragments.yielded[1] = <<"x = 1">>
    /\ Len(fragments.yielded[2]) = chunk_size

\* C14: parse_json_response never raises for any text or None input; it
\* returns the first strategy's result that succeeds, the regex-extracted
\* subset only if status or fixed_code was recovered, and otherwise None
C14_ParseNeverRaises ==
    pc = "parse_done"
        => /\ ~parse_out.raised
           /\ (parse_out.value # None /\ api_out.value # None
                 => \/ loads(brace_span(api_out.value[1])).st = "ok"
                    \/ strategy_1(api_out.value[1]).done
                    \/ strategy_2(api_out.value[1]).done
                    \/ "status" \in DOMAIN parse_out.value[1]
                    \/ "fixed_code" \in DOMAIN parse_out.value[1])

\* C15: for every syntactically valid JSON object embedded anywhere inside
\* surrounding prose or code fences, also prose that itself contains braces,
\* parse_json_response returns a mapping equal to the embedded object
C15_EmbeddedObjectRecovered ==
    (pc = "parse_done" /\ embedded # None)
        => parse_out = ParseDict(embedded[1])

\* the rows whose pattern occurs in the code, case-insensitively
Occurring ==
    { i \in 1..Len(dangerous_patterns) :
        Contains(LowerStr(code), LowerStr(dangerous_patterns[i].pattern)) }

\* the row a reported vulnerability comes from
RowOf(v) ==
    CHOOSE i \in 1..Len(dangerous_patterns) : dangerous_patterns[i].pattern = v.pattern

\* C16: the basic security heuristic reports exactly one vulnerability per
\* dangerous pattern of its table that occurs case-insensitively in the code,
\* in table order and with that pattern's severity, and sets risk_score to
\* min(25 * number of vulnerabilities, 100); code with eval( and
\* password = "x" only gives CRITICAL then MEDIUM and a risk score of 50
C16_BasicScanPerPattern ==
    pc = "scan_done"
        => LET vs == basic.vulnerabilities
           IN  /\ Len(vs) = Cardinality(Occurring)
               /\ \A i \in Occurring :
                     Cardinality({ k \in 1..Len(vs) :
                                    vs[k].pattern = dangerous_patterns[i].pattern }) = 1
               /\ \A k \in 1..Len(vs) :
                     /\ RowOf(vs[k]) \in Occurring
                     /\ vs[k].severity = dangerous_patterns[RowOf(vs[k])].severity
               /\ \A k \in 1..(Len(vs) - 1) : RowOf(vs[k]) < RowOf(vs[k + 1])
               /\ basic.risk_score = (IF 25 * Len(vs) < 100 THEN 25 * Len(vs) ELSE 100)
               /\ (code = Piece_eval \o Piece_password
                     => /\ Len(vs) = 2
                        /\ vs[1].severity = "CRITICAL"
                        /\ vs[2].severity = "MEDIUM"
                        /\ basic.risk_score = 50)

\* the scenario of the claim
C16_Witness ==
    /\ pc = "scan_done"
    /\ code = Piece_eval \o Piece_password
    /\ Len(basic.vulnerabilities) = 2
    /\ basic.risk_score = 50

\* C17: for every non-empty prompt, run_workflow returns a snapshot whose
\* code artifact is non-empty and whose workflow holds exactly one step per
\* stage (code generator, validator, tester, security), in that order, each
\* with status complete
C17_RunReturnsCompleteSnapshot ==
    (entry = "generate" /\ prompt # <<>>)
        => /\ pc # "crashed"
           /\ (pc = "returned"
                 => /\ result.code # <<>>
                    /\ AgentsOf(result.workflow)
                          = <<"Code Generator", "Validator", "Testing", "Security">>
                    /\ \A i \in 1..Len(result.workflow) :
                          result.workflow[i].status = "completed")

\* the request of this entry point lacks its required input
EmptyInput ==
    \/ entry \in {"generate", "stream"} /\ prompt = <<>>
    \/ entry \in {"regenerate", "regenerate_stream"} /\ edit_instructions = <<>>

\* C18: on every pipeline entry point (generate, generate/stream, edit,
\* regenerate, regenerate/stream) a request with an empty prompt, empty
\* original code or empty edit instructions is rejected with a client error
\* before any orchestrator is built, any stage agent is invoked or any event
\* is emitted
C18_EmptyInputRejected ==
    EmptyInput
        => /\ pc \in {"request", "rejected"}
           /\ events = <<>>
           /\ last_stage = "none"
           /\ workflow_history = <<>>

-----------------------------------------------------------------------------
\* Claims about the workflow steps and the text messages of a stream

StatusRank(status) ==
    CASE status = "pending"  -> 0
      [] status = "active"   -> 1
      [] status = "complete" -> 2
      [] status = "error"    -> 3

\* one snapshot of the steps: at most one step is active, the steps before
\* it are complete and the steps after it pending, and a step has a duration
\* exactly when it is complete
StepsInOrder(steps) ==
    /\ Cardinality({ i \in 1..Len(steps) : steps[i].status = "active" }) <= 1
    /\ \A i \in 1..Len(steps) :
          steps[i].status = "active"
             => /\ \A j \in 1..(i - 1) : steps[j].status = "complete"
                /\ \A j \in (i + 1)..Len(steps) : steps[j].status = "pending"
    /\ \A i \in 1..Len(steps) :
          steps[i].duration <=> (steps[i].status = "complete")

\* the snapshots of the steps a client sees: as created, then as carried by
\* each workflow update
Snapshots ==
    LET ups == SelectSeq(events, LAMBDA e : e.type = "workflow_update")
    IN  IF created_steps = <<>>
        THEN <<>>
        ELSE <<created_steps>> \o [k \in 1..Len(ups) |-> ups[k].data]

\* every workflow update among the snapshots carries steps in order
UpdatesInOrder(snaps) ==
    \A k \in 2..Len(snaps) : StepsInOrder(snaps[k])

\* from one snapshot to the next a step keeps its status, leaves pending for
\* active, or leaves active for complete or error
StepsMoveForward(snaps) ==
    \A k \in 1..(Len(snaps) - 1) :
        /\ Len(snaps[k + 1]) = Len(snaps[k])
        /\ \A i \in 1..Len(snaps[k]) :
              LET old == snaps[k][i].status
                  new == snaps[k + 1][i].status
              IN  \/ new = old
                  \/ old = "pending" /\ new = "active"
                  \/ old = "active" /\ new \in {"complete", "error"}

\* C19 (as the specification states it): every workflow step is created
\* pending and only moves pending to active to complete (or error); every
\* emitted workflow update has at most one active step, complete steps
\* before it and pending steps after it, and a duration exactly on the
\* complete steps
C19_StepsCreatedPending ==
    LET snaps == Snapshots
    IN  /\ \A i \in 1..Len(created_steps) : created_steps[i].status = "pending"
        /\ StepsMoveForward(snaps)
        /\ UpdatesInOrder(snaps)

\* C19 (amended): as above, except that the planning step of a multi-file
\* run is created active, not pending; every other step is created pending
C19_StepsMoveForwardInOrder ==
    LET snaps == Snapshots
    IN  /\ \A i \in 1..Len(created_steps) :
              IF created_steps[i].id = "planning"
              THEN created_steps[i].status = "active"
              ELSE created_steps[i].status = "pending"
        /\ StepsMoveForward(snaps)
        /\ UpdatesInOrder(snaps)

\* C19 witness: a multi-file run whose steps were created with planning
\* active has completed its last step
C19_Witness ==
    /\ pc = "done"
    /\ mode = "multi"
    /\ created_steps[1].status = "active"
    /\ Len(workflow_steps) = 5
    /\ \A i \in 1..5 : workflow_steps[i].status = "complete" /\ workflow_steps[i].duration
    /\ \E k \in 1..Len(events) :
          /\ events[k].type = "workflow_update"
          /\ events[k].data[3].status = "active"

\* the text-message events emitted so far, in order
TextMessageEvents ==
    SelectSeq(events, LAMBDA e : e.type \in {"TEXT_MESSAGE_START",
                                             "TEXT_MESSAGE_CONTENT",
                                             "TEXT_MESSAGE_END"})

\* the positions in tev of the events of one type for one message id
TextAt(tev, type, id) ==
    { k \in 1..Len(tev) : tev[k].type = type /\ tev[k].id = id }

\* C20: every text-delta event carries a message id for which a
\* text-message-start was emitted earlier and no text-message-end has yet
\* been emitted; each message id is started exactly once and ended exactly
\* once, after its last fragment, also when the stream yields no fragment
C20_TextMessagesBracketed ==
    LET tev == TextMessageEvents
        ids == { tev[k].id : k \in 1..Len(tev) }
    IN  \A id \in ids :
           /\ Cardinality(TextAt(tev, "TEXT_MESSAGE_START", id)) = 1
           /\ Cardinality(TextAt(tev, "TEXT_MESSAGE_END", id)) = 1
           /\ \A s \in TextAt(tev, "TEXT_MESSAGE_START", id),
                 e \in TextAt(tev, "TEXT_MESSAGE_END", id) :
                 /\ s < e
                 /\ \A c \in TextAt(tev, "TEXT_MESSAGE_CONTENT", id) : s < c /\ c < e

\* C20 witness: a finished multi-file run with one message of no fragment
\* and one message of two fragments
C20_Witness ==
    LET tev == TextMessageEvents
    IN  /\ pc = "done"
        /\ mode = "multi"
        /\ \E k \in 1..Len(tev) :
              /\ tev[k].type = "TEXT_MESSAGE_START"
              /\ TextAt(tev, "TEXT_MESSAGE_CONTENT", tev[k].id) = {}
              /\ TextAt(tev, "TEXT_MESSAGE_END", tev[k].id) = {k + 1}
        /\ \E k \in 1..Len(tev) :
              /\ tev[k].type = "TEXT_MESSAGE_START"
              /\ Cardinality(TextAt(tev, "TEXT_MESSAGE_CONTENT", tev[k].id)) = 2

-----------------------------------------------------------------------------
\* Claims about tool-call events, state snapshots and the isolation of runs

\* the tool-call events emitted so far, in order
ToolCallLog ==
    SelectSeq(events, LAMBDA e : e.type \in {"TOOL_CALL_START", "TOOL_CALL_ARGS",
                                             "TOOL_CALL_END", "TOOL_CALL_RESULT"})

RECURSIVE FlatFixes(_)
\* the Fix Records of all_fixes, one after the other
FlatFixes(fx) ==
    IF fx = <<>> THEN <<>> ELSE Head(fx).fixes \o FlatFixes(Tail(fx))

\* the k-th group of four tool-call events is one sequence for fix f
IsToolCallSequence(tc, k, f) ==
    LET b == 4 * (k - 1)
    IN  /\ tc[b + 1].type = "TOOL_CALL_START"
        /\ tc[b + 2].type = "TOOL_CALL_ARGS"
        /\ tc[b + 3].type = "TOOL_CALL_END"
        /\ tc[b + 4].type = "TOOL_CALL_RESULT"
        /\ \A j \in 2..4 : tc[b + j].id = tc[b + 1].id
        /\ \A j \in 1..4 : tc[b + j].data = f

\* C21: for each Fix Record applied by an analysis stage, in single-file and
\* in multi-file mode, the event stream holds exactly one tool-call sequence
\* start, arguments, end, result, in that order and with one shared tool-call
\* id; the sequences of different fixes do not interleave
C21_OneToolCallSequencePerFix ==
    entry \in {"stream", "single_file"}
       => LET tc == ToolCallLog
              ff == FlatFixes(all_fixes)
          IN  /\ Len(tc) = 4 * Len(ff)
              /\ \A k \in 1..Len(ff) : IsToolCallSequence(tc, k, ff[k])
              /\ \A k, l \in 1..Len(ff) :
                    k # l => tc[4 * k].id # tc[4 * l].id

\* the positions of the state snapshots in the event stream
SnapshotAt ==
    { k \in 1..Len(events) : events[k].type = "STATE_SNAPSHOT" }

\* the snapshot written after classification: mode and phase "starting" only
IsInitialSnapshot(k) ==
    events[k].data = "starting"

\* snapshot d holds the final artifact(s), every recorded fix with the
\* total, and every workflow step complete with its duration
IsFullSnapshot(d) ==
    /\ d.all_fixes = all_fixes
    /\ d.total_fixes = Len(FlatFixes(all_fixes))
    /\ d.workflow = workflow_steps
    /\ \A i \in 1..Len(d.workflow) :
          d.workflow[i].status = "complete" /\ d.workflow[i].duration
    /\ IF mode = "multi"
       THEN /\ Len(d.project_files) = Len(project_plan)
            /\ \A i \in 1..Len(project_plan) :
                  /\ d.project_files[i].path = project_plan[i]
                  /\ DictHas(generated_files, project_plan[i])
                        => d.project_files[i].content
                              = DictGet(generated_files, project_plan[i])
       ELSE d.code = code

\* position k holds the full snapshot of a finished run: it stands after
\* the last step-finished and right before run-finished, the last event
IsRunEndSnapshot(k) ==
    /\ pc = "done"
    /\ k = Len(events) - 1
    /\ events[Len(events)].type = "RUN_FINISHED"
    /\ \E j \in 1..(k - 1) : events[j].type = "STEP_FINISHED"
    /\ \A j \in 1..Len(events) : events[j].type = "STEP_FINISHED" => j < k
    /\ IsFullSnapshot(events[k].data)

\* C22 (as the specification states it): a run emits a state snapshot
\* exactly once, at run end, after the last step-finished and before
\* run-finished, holding the final artifact(s), every fix, every step
\* complete with its duration and the stats; before it only deltas
C22_SnapshotOnlyAtRunEnd ==
    entry \in {"stream", "single_file"}
       => /\ \A k \in SnapshotAt : IsRunEndSnapshot(k)
          /\ pc = "done" => Cardinality(SnapshotAt) = 1

\* C22 (amended): a run of the streaming endpoint emits a state snapshot
\* twice: one right after the classifier step, holding only the mode and
\* the phase "starting", and the full one at run end, after the last
\* step-finished and right before run-finished, holding the final
\* artifact(s), every fix, every step complete with its duration and the
\* fix total; no other snapshot is emitted
C22_InitialThenFullSnapshot ==
    /\ entry = "stream"
          => /\ \A k \in SnapshotAt :
                   \/ k = 6 /\ IsInitialSnapshot(k)
                   \/ IsRunEndSnapshot(k)
             /\ Len(events) >= 6 => 6 \in SnapshotAt
             /\ pc = "done" => SnapshotAt = {6, Len(events) - 1}
    /\ entry = "single_file"
          => /\ \A k \in SnapshotAt : IsRunEndSnapshot(k)
             /\ pc = "done" => SnapshotAt = {Len(events) - 1}

\* C22 witness: a finished multi-file run of the streaming endpoint with a
\* recorded fix, whose stream holds the initial and the full snapshot
C22_Witness ==
    /\ entry = "stream"
    /\ pc = "done"
    /\ all_fixes # <<>>
    /\ Cardinality(SnapshotAt) = 2
    /\ IsInitialSnapshot(6)
    /\ IsRunEndSnapshot(Len(events) - 1)

-----------------------------------------------------------------------------
(* Two pipeline runs served at the same time, each by its own request:     *)
(* POST /api/generate (run_workflow on the Orchestrator's fields) or the   *)
(* single-file stream (locals of the generator), interleaved stage by      *)
(* stage                                                                   *)

Runs ==
    {1, 2}

RunKinds ==
    {"generate", "stream"}

\* Orchestrator.__init__: the fields of a new object
Orchestrator_init ==
    [workflow_history |-> <<>>, all_fixes |-> <<>>]

\* one Orchestrator object kept at module level and handed to every request
Orchestrator_shared(h) ==
    [heap |-> IF h = <<>> THEN <<Orchestrator_init>> ELSE h, ref |-> 1]

\* orchestrator = Orchestrator(api_key): a new object, referenced by the
\* local variable of the handler
Orchestrator_new(h) ==
    [heap |-> Append(h, Orchestrator_init), ref |-> Len(h) + 1]

\* the texts the code generator model may answer in a concurrent run
RunGenAnswers ==
    { None, Some(<<"x = 1">>) }

\* the fragments the streaming generator may yield in a concurrent run
RunChunkStreams ==
    { cs \in ChunkStreams : Len(cs) <= 1 }

\* the parsed answers of the model to an analysis prompt in a concurrent run
RunStageAnswers ==
    { None,
      Some([fixed_code |-> Some(<<"y = 1">>), fixes_applied |-> FixesList(<<"f2", "f1">>)]),
      Some([fixed_code |-> None, fixes_applied |-> FixesList(<<"f1", "f1">>)]) }

\* the analysis stages in pipeline order
RunStages ==
    << [stage |-> "validator", agent |-> "Validator"],
       [stage |-> "testing",   agent |-> "Testing"],
       [stage |-> "security",  agent |-> "Security"] >>

\* the frame of a request that has not started
RunFrame(kind, p) ==
    [ kind |-> kind, pc |-> "request", prompt |-> p, orchestrator |-> 0,
      code |-> <<>>, original_code |-> <<>>, all_fixes |-> <<>>,
      workflow_steps |-> <<>>, stage |-> 1, inputs |-> <<>>, result |-> <<>> ]

InitRuns ==
    /\ entry = "runs"
    /\ pc = "runs"
    /\ prompt = <<>>
    /\ code = <<>>
    /\ last_file = ""
    /\ created_steps = <<>>
    /\ edit_instructions = <<>>
    /\ PipelineIdle
    /\ GatewayIdle
    /\ heap = <<>>
    /\ runs \in { [r \in Runs |-> RunFrame(k[r], IF r = 1 THEN Str_sort ELSE Str_App)] :
                    k \in [Runs -> RunKinds] }
    /\ sessions = <<>>
    /\ messages = <<>>
    /\ handlers = <<>>

\* the variables a concurrent run leaves alone
runFrame ==
    << reqVars, clsVars, pc, code, original_code, all_fixes, workflow_history,
       workflow_steps, events, next_id, stageVars, multiVars, result,
       created_steps, api_key, GROQ_API_KEY, response, net_calls, api_out,
       parse_out, embedded, basic, wire, fragments, sessions, messages,
       handlers >>

\* generate_code / generate_code_stream: the handler builds its Orchestrator
RunRequest(r) ==
    /\ runs[r].pc = "request"
    /\ LET made == Orchestrator_new(heap)
       IN  /\ heap' = made.heap
           /\ runs' = [runs EXCEPT ![r].orchestrator = made.ref,
                                   ![r].pc = "generate"]
    /\ UNCHANGED runFrame

\* run_workflow step 1 / _generate_single_file step 1
RunGenerate(r) ==
    /\ runs[r].pc = "generate"
    /\ LET o == runs[r].orchestrator
       IN  IF runs[r].kind = "generate"
           THEN \E answer \in RunGenAnswers :
                   LET c == generate(runs[r].prompt, answer)
                   IN  /\ heap' = [heap EXCEPT
                                     ![o].workflow_history = <<WfStep("Code Generator")>>,
                                     ![o].all_fixes = <<>>]
                       /\ runs' = [runs EXCEPT ![r].code = c,
                                               ![r].original_code = c,
                                               ![r].inputs = <<answer>>,
                                               ![r].pc = "stage"]
           ELSE \E chunks \in RunChunkStreams :
                   LET c == Concat(chunks)
                   IN  /\ heap' = heap
                       /\ runs' = [runs EXCEPT ![r].code = c,
                                               ![r].original_code = c,
                                               ![r].all_fixes = <<>>,
                                               ![r].workflow_steps =
                                                   Complete(Activate(SingleSteps, 1), 1),
                                               ![r].inputs = <<chunks>>,
                                               ![r].pc = "stage"]
    /\ UNCHANGED runFrame

\* one analysis stage: validate_code / test_code / secure_code append their
\* step to the Orchestrator's workflow_history; run_workflow records the
\* fixes on the Orchestrator, the stream in its local all_fixes
RunStage(r) ==
    /\ runs[r].pc = "stage"
    /\ \E parsed \in RunStageAnswers :
          LET o    == runs[r].orchestrator
              i    == runs[r].stage
              s    == RunStages[i]
              c    == runs[r].code
              res  == RunAgent(s.stage, c, parsed)
              last == i = Len(RunStages)
              step == [runs EXCEPT ![r].inputs = Append(@, parsed),
                                   ![r].stage = IF last THEN i ELSE i + 1,
                                   ![r].pc = IF last THEN "return" ELSE "stage"]
          IN  IF runs[r].kind = "generate"
              THEN /\ heap' = [heap EXCEPT
                                 ![o].workflow_history = Append(@, WfStageStep(s.agent, res)),
                                 ![o].all_fixes = wf_fixes(@, s.agent, res)]
                   /\ runs' = [step EXCEPT ![r].code = wf_code(c, res)]
              ELSE /\ heap' = [heap EXCEPT
                                 ![o].workflow_history = Append(@, WfStageStep(s.agent, res))]
                   /\ runs' = [step EXCEPT
                                 ![r].code = paf_code(c, res),
                                 ![r].all_fixes = paf_fixes(@, s.agent, res),
                                 ![r].workflow_steps =
                                     Complete(Activate(@, i + 1), i + 1)]
    /\ UNCHANGED runFrame

\* the result run_workflow returns / the final snapshot of the stream
RunReturn(r) ==
    /\ runs[r].pc = "return"
    /\ LET o     == runs[r].orchestrator
           fixes == IF runs[r].kind = "generate"
                    THEN heap[o].all_fixes ELSE runs[r].all_fixes
           code_was_fixed == runs[r].code # runs[r].original_code
       IN  runs' = [runs EXCEPT
                      ![r].result =
                          [ code           |-> runs[r].code,
                            original_code  |-> IF code_was_fixed
                                               THEN Some(runs[r].original_code)
                                               ELSE None,
                            all_fixes      |-> fixes,
                            code_was_fixed |-> code_was_fixed,
                            total_fixes    |-> SumFixes(fixes),
                            workflow       |-> IF runs[r].kind = "generate"
                                               THEN heap[o].workflow_history
                                               ELSE runs[r].workflow_steps ],
                      ![r].pc = "done"]
    /\ UNCHANGED << heap, runFrame >>

NextRuns ==
    \E r \in Runs :
       \/ RunRequest(r)
       \/ RunGenerate(r)
       \/ RunStage(r)
       \/ RunReturn(r)

SpecRuns ==
    InitRuns /\ [][NextRuns]_vars

RECURSIVE SoloAfter(_, _, _, _)
\* the code and the fix list a run of this kind has after its first n
\* analysis stages when it runs alone on inputs gen, a[1], ..., a[n]
SoloAfter(kind, c0, a, n) ==
    IF n = 0
    THEN [code |-> c0, all_fixes |-> <<>>]
    ELSE LET prev == SoloAfter(kind, c0, a, n - 1)
             s    == RunStages[n]
             res  == RunAgent(s.stage, prev.code, a[n])
         IN  IF kind = "generate"
             THEN [code      |-> wf_code(prev.code, res),
                   all_fixes |-> wf_fixes(prev.all_fixes, s.agent, res)]
             ELSE [code      |-> paf_code(prev.code, res),
                   all_fixes |-> paf_fixes(prev.all_fixes, s.agent, res)]

\* the artifact the generator of run r produced from its own input
SoloGenerated(r) ==
    IF runs[r].kind = "generate"
    THEN generate(runs[r].prompt, runs[r].inputs[1])
    ELSE Concat(runs[r].inputs[1])

\* the workflow a finished run of this kind reports when it runs alone on
\* the analysis answers a
SoloWorkflow(kind, c0, a) ==
    IF kind = "generate"
    THEN << WfStep("Code Generator") >> \o
         [n \in 1..Len(RunStages) |->
            WfStageStep(RunStages[n].agent,
                        RunAgent(RunStages[n].stage,
                                 SoloAfter(kind, c0, a, n - 1).code, a[n]))]
    ELSE [i \in 1..4 |-> [SingleSteps[i] EXCEPT !.status = "complete",
                                                 !.duration = TRUE]]

\* C23: two pipeline runs that execute interleaved share no mutable state:
\* each has its own Orchestrator, code artifact, all_fixes and workflow
\* history, so the fixes, workflow steps and final code one run reports are
\* those it would report alone on its own inputs
C23_RunsShareNoState ==
    entry = "runs"
       => /\ \A r1, r2 \in Runs :
                (r1 # r2 /\ runs[r1].orchestrator # 0 /\ runs[r2].orchestrator # 0)
                   => runs[r1].orchestrator # runs[r2].orchestrator
          /\ \A r \in Runs :
                runs[r].pc = "done"
                   => LET solo == SoloAfter(runs[r].kind, SoloGenerated(r),
                                            Tail(runs[r].inputs), Len(RunStages))
                      IN  /\ runs[r].result.code = solo.code
                          /\ runs[r].result.all_fixes = solo.all_fixes
                          /\ runs[r].result.total_fixes = Len(FlatFixes(solo.all_fixes))
                          /\ runs[r].result.workflow
                                = SoloWorkflow(runs[r].kind, SoloGenerated(r),
                                               Tail(runs[r].inputs))

\* C23 witness: two runs of POST /api/generate have both returned, each on
\* its own Orchestrator; the first reports two fix entries, the second none,
\* and their final codes differ
C23_Witness ==
    /\ entry = "runs"
    /\ \A r \in Runs : runs[r].kind = "generate" /\ runs[r].pc = "done"
    /\ runs[1].orchestrator = 1
    /\ runs[2].orchestrator = 2
    /\ Len(runs[1].result.all_fixes) = 2
    /\ runs[1].result.all_fixes[1].agent = "Validator"
    /\ runs[2].result.all_fixes = <<>>
    /\ runs[1].result.code # runs[2].result.code

-----------------------------------------------------------------------------
\* Claims about the files of a multi-file run

\* the path ends in an executable-source extension
HasSourceExtension(path) ==
    Ext(path) \in {".py", ".js", ".jsx", ".ts", ".tsx"}

\* C24: in multi-file mode the validator, tester and security stages are
\* invoked only on generated files whose extension is an executable-source
\* extension; every other generated file is never passed to a stage and has,
\* in the final snapshot, exactly its generated content with was_fixed false
C24_StagesOnlyOnSourceFiles ==
    mode = "multi"
       => /\ \A i \in 1..Len(stage_calls) : HasSourceExtension(stage_calls[i].file)
          /\ \A i \in 1..Len(code_files) : HasSourceExtension(code_files[i])
          /\ pc \in {"m_stage_start", "m_stage_file", "m_final", "done"}
                => \A i \in 1..Len(original_files) :
                      ~HasSourceExtension(original_files[i].path)
                         => DictGet(generated_files, original_files[i].path)
                               = original_files[i].content
          /\ pc = "done"
                => \A i \in 1..Len(result.project_files) :
                      LET f == result.project_files[i]
                      IN  ~HasSourceExtension(f.path)
                             => /\ ~f.was_fixed
                                /\ f.original_content = None
                                /\ DictHas(original_files, f.path)
                                /\ f.content = DictGet(original_files, f.path)

\* C24 witness: a finished multi-file run whose plan holds a markup file and
\* source files; a stage fixed a source file, and the markup file was
\* generated with content and left as generated
C24_Witness ==
    /\ mode = "multi"
    /\ pc = "done"
    /\ \E i \in 1..Len(result.project_files) :
          /\ result.project_files[i].path = "index.html"
          /\ result.project_files[i].content # <<>>
          /\ ~result.project_files[i].was_fixed
    /\ \E i \in 1..Len(result.project_files) :
          /\ result.project_files[i].path = "a.py"
          /\ result.project_files[i].was_fixed
    /\ Len(stage_calls) = 6

-----------------------------------------------------------------------------
\* Claims about the prompt of the generation phase and about degraded runs

\* C25: in the streaming endpoint the prompt handed to the generation phase
\* is always defined: classified single, generation receives the enhanced
\* prompt (previous code plus follow-up when context_code is given, else the
\* raw prompt); classified multi, it receives the raw prompt; in each of the
\* four combinations of mode and context_code the generation phase starts
C25_GenerationPromptDefined ==
    (entry = "stream" /\ mode \in {"single", "multi"} /\ pc # "dispatch")
       => gen_prompt = IF mode = "single" /\ context_code
                       THEN "with_context"
                       ELSE "raw"

\* the steps of the analysis stages in a workflow history
StageSteps(h) ==
    SelectSeq(h, LAMBDA st : st.agent # "Code Generator")

\* every analysis stage of the run has run, and each on its heuristic
AllStagesDegraded ==
    LET st == StageSteps(workflow_history)
    IN  /\ Len(st) = 3
        /\ \A i \in 1..3 : ~st[i].output.ai_powered

\* C26: if the Model Gateway is unavailable for every analysis stage of a
\* run, each stage returns its heuristic result with empty fixes_applied and
\* no fixed_code, so the final code equals the generated code, all_fixes is
\* empty, total_fixes is 0, code_was_fixed is false and original_code is null
C26_DegradedRunChangesNothing ==
    entry \in {"generate", "regenerate", "edit"}
       => /\ (last_stage # "none" /\ ~last_res.raised /\ ~last_res.ai_powered)
                => /\ last_res.fixes_applied = FixesList(<<>>)
                   /\ last_res.fixed_code = None
                   /\ code = stage_in
                   /\ all_fixes = fixes_before
          /\ (pc = "returned" /\ AllStagesDegraded)
                => /\ result.code = original_code
                   /\ result.all_fixes = <<>>
                   /\ result.total_fixes = 0
                   /\ ~result.code_was_fixed
                   /\ result.original_code = None

\* C26 witness: POST /api/generate returned after a run in which the
\* generator and the three analysis stages all worked without the gateway
C26_Witness ==
    /\ entry = "generate"
    /\ pc = "returned"
    /\ AllStagesDegraded
    /\ last_stage = "Security"
    /\ result.code = _mock_generate(prompt)
    /\ result.code # <<>>

\* a result has been returned by run_workflow or run_agents_on_code, or
\* sent as the final snapshot of the single-file stream
ResultReturned ==
    \/ entry \in {"generate", "regenerate", "edit"} /\ pc = "returned"
    \/ entry \in {"stream", "single_file"} /\ mode = "single" /\ pc = "done"

\* C27: in the result of run_workflow, run_agents_on_code and the
\* single-file stream, code_was_fixed is true exactly when the final code
\* differs from the code that entered the analysis stages, original_code is
\* non-null exactly when code_was_fixed is true, total_fixes is the sum of
\* the lengths of the fixes lists in all_fixes, and code_was_fixed implies
\* total_fixes is at least 1
C27_ResultFieldsConsistent ==
    ResultReturned
       => /\ result.code_was_fixed <=> (result.code # original_code)
          /\ (result.original_code # None) <=> result.code_was_fixed
          /\ result.code_was_fixed => result.original_code = Some(original_code)
          /\ result.total_fixes = Len(FlatFixes(result.all_fixes))
          /\ result.code_was_fixed => result.total_fixes >= 1

\* C27 witness: run_workflow returned a result whose code two stages fixed,
\* with two fixes each
C27_Witness ==
    /\ entry = "generate"
    /\ pc = "returned"
    /\ result.code_was_fixed
    /\ result.original_code # None
    /\ Len(result.all_fixes) = 2
    /\ result.total_fixes = 4

-----------------------------------------------------------------------------
\* Claims about the credential the gateway sends

\* the supplied api_key is missing or at most 10 characters long
SuppliedKeyUnusable ==
    api_key = None \/ Len(api_key[1]) <= 10

\* C28: whenever call_groq_api makes a network request, the credential it
\* sends in the Authorization header is the credential that passed the
\* validity check; when the supplied api_key is missing or too short and the
\* configured key is used for the check, the configured key is the one sent
C28_SentCredentialIsCheckedOne ==
    (pc = "gateway_done" /\ net_calls >= 1)
       => /\ ~FailsValidityCheck(api_out.key)
          /\ api_out.bearer = Some(api_out.key)
          /\ SuppliedKeyUnusable => api_out.bearer = Some(GROQ_API_KEY)

-----------------------------------------------------------------------------
(* The session store (database.py SessionDB / MessageDB) and the endpoints *)
(* that use it (main.py), served to two requests at a time; a handler is   *)
(* suspended at every await of a database call                             *)

Procs ==
    {1, 2}

Users ==
    {"u1", "u2"}

\* the user of a request without valid credentials
Anonymous ==
    "none"

SessionIds ==
    {"s1", "s2"}

\* the user each session was created for (create_session: user_id)
SessionOwner(sid) ==
    IF sid = "s1" THEN "u1" ELSE "u2"

\* SessionDB.create_session: the stored document
SessionDoc(sid) ==
    [user_id |-> SessionOwner(sid), title |-> "New Chat", updated_at |-> 0]

\* the requests a handler may serve
SessionRequests ==
    { [op |-> o, user |-> u, sid |-> s, role |-> "user", ids |-> <<>>] :
        o \in {"generate", "get_session", "delete_session", "update_title",
               "add_message"},
        u \in Users \cup {Anonymous}, s \in SessionIds }
    \cup { [op |-> "add_message", user |-> u, sid |-> s, role |-> "assistant",
            ids |-> <<>>] : u \in Users, s \in SessionIds }
    \cup { [op |-> "bulk_delete", user |-> u, sid |-> "s1", role |-> "user",
            ids |-> l] : u \in Users, l \in { <<"s1", "s2">>, <<"s2">> } }
    \cup { [op |-> "cleanup_empty", user |-> u, sid |-> "s1", role |-> "user",
            ids |-> <<>>] : u \in Users }

\* the frame of a handler that has not started
HandlerFrame(req) ==
    [ op |-> req.op, user |-> req.user, sid |-> req.sid, role |-> req.role,
      ids |-> req.ids, pc |-> "start", title_is_new |-> FALSE,
      second |-> FALSE, status |-> 0, effects |-> <<>>, deleted |-> {} ]

InitSessions ==
    /\ entry = "sessions"
    /\ pc = "sessions"
    /\ prompt = <<>>
    /\ code = <<>>
    /\ last_file = ""
    /\ created_steps = <<>>
    /\ edit_instructions = <<>>
    /\ PipelineIdle
    /\ GatewayIdle
    /\ heap = <<>>
    /\ runs = <<>>
    /\ sessions = [s \in SessionIds |-> SessionDoc(s)]
    /\ messages = <<>>
    /\ handlers \in { [p \in Procs |-> HandlerFrame(rq[p])] :
                        rq \in [Procs -> SessionRequests] }

\* the variables a session request leaves alone
sessionFrame ==
    << reqVars, clsVars, pc, code, original_code, all_fixes, workflow_history,
       workflow_steps, events, next_id, stageVars, multiVars, result,
       created_steps, api_key, GROQ_API_KEY, response, net_calls, api_out,
       parse_out, embedded, basic, wire, fragments, heap, runs >>

\* a database operation of handler p on session sid, as the handler's log
Effect(p, kind, sid) ==
    Append(handlers[p].effects, [kind |-> kind, sid |-> sid])

\* db.messages.delete_many({"session_id": session_id})
delete_many(msgs, sid) ==
    SelectSeq(msgs, LAMBDA m : m.session_id # sid)

\* db.sessions.delete_one({"_id": ObjectId(session_id)})
delete_one(ss, sid) ==
    [s \in (DOMAIN ss) \ {sid} |-> ss[s]]

\* db.sessions.update_one({"_id": ...}, {"$set": {"updated_at": now}})
touch(ss, sid) ==
    IF sid \in DOMAIN ss
    THEN [ss EXCEPT ![sid].updated_at = @ + 1]
    ELSE ss

\* db.sessions.update_one({"_id": ...}, {"$set": {"title": ..., "updated_at": now}})
set_title(ss, sid) ==
    IF sid \in DOMAIN ss
    THEN [ss EXCEPT ![sid].title = "titled", ![sid].updated_at = @ + 1]
    ELSE ss

\* session = await SessionDB.get_session(session_id), then the 404 and 403
\* checks of get_session, delete_session, add_message_to_session and
\* update_session_title_endpoint: the status they lead to (200: passed)
owner_check(ss, sid, user) ==
    IF sid \notin DOMAIN ss THEN 404
    ELSE IF ss[sid].user_id # user THEN 403
    ELSE 200

\* the first step of the four endpoints that take a session id: the user
\* dependency (401 without valid credentials), the lookup and the checks
SessionLookup(p) ==
    LET h == handlers[p]
    IN  /\ h.pc = "start"
        /\ h.op \in {"get_session", "delete_session", "update_title", "add_message"}
        /\ LET st == IF h.user = Anonymous THEN 401
                     ELSE owner_check(sessions, h.sid, h.user)
           IN  handlers' = [handlers EXCEPT
                   ![p].status = st,
                   ![p].title_is_new = st = 200 /\ sessions[h.sid].title = "New Chat",
                   ![p].effects = IF st \in {401, 404} THEN h.effects
                                  ELSE Effect(p, "lookup", h.sid),
                   ![p].pc = IF st # 200 THEN "done"
                             ELSE CASE h.op = "get_session"    -> "read"
                                    [] h.op = "delete_session" -> "del_messages"
                                    [] h.op = "update_title"   -> "title"
                                    [] h.op = "add_message"    -> "insert"]
        /\ UNCHANGED << sessions, messages, sessionFrame >>

\* get_session: messages = await MessageDB.get_session_messages(session_id)
SessionRead(p) ==
    /\ handlers[p].pc = "read"
    /\ handlers' = [handlers EXCEPT ![p].effects = Effect(p, "read", handlers[p].sid),
                                    ![p].pc = "done"]
    /\ UNCHANGED << sessions, messages, sessionFrame >>

\* SessionDB.delete_session, first await: the messages of the session
DeleteMessages(p) ==
    /\ handlers[p].pc = "del_messages"
    /\ messages' = delete_many(messages, handlers[p].sid)
    /\ handlers' = [handlers EXCEPT
            ![p].effects = Effect(p, "delete_messages", handlers[p].sid),
            ![p].pc = "del_session"]
    /\ UNCHANGED << sessions, sessionFrame >>

\* SessionDB.delete_session, second await: the session itself; the handler
\* then returns, or goes on with the next session of its list
DeleteSession(p) ==
    LET h == handlers[p]
    IN  /\ h.pc = "del_session"
        /\ sessions' = delete_one(sessions, h.sid)
        /\ handlers' = [handlers EXCEPT
                ![p].effects = Effect(p, "delete_session", h.sid),
                ![p].deleted = h.deleted \cup {h.sid},
                ![p].ids = IF h.op = "delete_session" THEN h.ids ELSE Tail(h.ids),
                ![p].pc = CASE h.op = "delete_session" -> "done"
                            [] h.op = "bulk_delete"    -> "start"
                            [] h.op = "cleanup_empty"  -> "cleanup"]
        /\ UNCHANGED << messages, sessionFrame >>

\* MessageDB.add_message, first await: db.messages.insert_one
InsertMessage(p) ==
    LET h == handlers[p]
    IN  /\ h.pc = "insert"
        /\ messages' = Append(messages,
                [session_id |-> h.sid,
                 role |-> IF h.second THEN "assistant" ELSE h.role,
                 by |-> h.user])
        /\ handlers' = [handlers EXCEPT ![p].effects = Effect(p, "insert", h.sid),
                                        ![p].pc = "touch"]
        /\ UNCHANGED << sessions, sessionFrame >>

\* MessageDB.add_message, second await: the session timestamp; then
\* add_message_to_session looks at the title, generate_code adds its second
\* message
TouchSession(p) ==
    LET h == handlers[p]
    IN  /\ h.pc = "touch"
        /\ sessions' = touch(sessions, h.sid)
        /\ handlers' = [handlers EXCEPT
                ![p].second = h.op = "generate",
                ![p].pc = IF h.op = "generate"
                          THEN (IF h.second THEN "done" ELSE "insert")
                          ELSE IF h.role = "user" /\ h.title_is_new
                          THEN "count"
                          ELSE "done"]
        /\ UNCHANGED << messages, sessionFrame >>

\* add_message_to_session: the user messages of the session are counted
CountMessages(p) ==
    LET h == handlers[p]
        user_messages == SelectSeq(messages, LAMBDA m : m.session_id = h.sid
                                                          /\ m.role = "user")
    IN  /\ h.pc = "count"
        /\ handlers' = [handlers EXCEPT
                ![p].effects = Effect(p, "read", h.sid),
                ![p].pc = IF Len(user_messages) = 1 THEN "title" ELSE "done"]
        /\ UNCHANGED << sessions, messages, sessionFrame >>

\* SessionDB.update_session_title
SetTitle(p) ==
    /\ handlers[p].pc = "title"
    /\ sessions' = set_title(sessions, handlers[p].sid)
    /\ handlers' = [handlers EXCEPT ![p].effects = Effect(p, "title", handlers[p].sid),
                                    ![p].pc = "done"]
    /\ UNCHANGED << messages, sessionFrame >>

\* POST /api/generate with a session_id: after run_workflow the handler
\* saves two messages; user is Optional and the session is not looked up
GenerateSave(p) ==
    /\ handlers[p].pc = "start"
    /\ handlers[p].op = "generate"
    /\ handlers' = [handlers EXCEPT ![p].status = 200, ![p].pc = "insert"]
    /\ UNCHANGED << sessions, messages, sessionFrame >>

\* bulk_delete_sessions: one turn of the loop up to the deletion
BulkLookup(p) ==
    LET h == handlers[p]
    IN  /\ h.pc = "start"
        /\ h.op = "bulk_delete"
        /\ IF h.ids = <<>>
           THEN handlers' = [handlers EXCEPT ![p].status = 200, ![p].pc = "done"]
           ELSE LET sid == Head(h.ids)
                    ok  == owner_check(sessions, sid, h.user) = 200
                IN  handlers' = [handlers EXCEPT
                        ![p].sid = sid,
                        ![p].effects = IF sid \in DOMAIN sessions
                                       THEN Effect(p, "lookup", sid) ELSE h.effects,
                        ![p].ids = IF ok THEN h.ids ELSE Tail(h.ids),
                        ![p].pc = IF ok THEN "del_messages" ELSE "start"]
        /\ UNCHANGED << sessions, messages, sessionFrame >>

\* cleanup_empty_sessions: SessionDB.get_user_sessions(user) with the
\* message count of each session
CleanupList(p) ==
    LET h == handlers[p]
        own == { s \in DOMAIN sessions : sessions[s].user_id = h.user }
        empty == { s \in own : \A i \in 1..Len(messages) : messages[i].session_id # s }
    IN  /\ h.pc = "start"
        /\ h.op = "cleanup_empty"
        /\ handlers' = [handlers EXCEPT
                ![p].ids = IF "s1" \in empty
                           THEN (IF "s2" \in empty THEN <<"s1", "s2">> ELSE <<"s1">>)
                           ELSE (IF "s2" \in empty THEN <<"s2">> ELSE <<>>),
                ![p].status = 200,
                ![p].pc = "cleanup"]
        /\ UNCHANGED << sessions, messages, sessionFrame >>

\* cleanup_empty_sessions: one turn of the loop over the empty sessions
CleanupNext(p) ==
    LET h == handlers[p]
    IN  /\ h.pc = "cleanup"
        /\ handlers' = IF h.ids = <<>>
                       THEN [handlers EXCEPT ![p].pc = "done"]
                       ELSE [handlers EXCEPT ![p].sid = Head(h.ids),
                                             ![p].pc = "del_messages"]
        /\ UNCHANGED << sessions, messages, sessionFrame >>

NextSessions ==
    \E p \in Procs :
       \/ SessionLookup(p)
       \/ SessionRead(p)
       \/ DeleteMessages(p)
       \/ DeleteSession(p)
       \/ InsertMessage(p)
       \/ TouchSession(p)
       \/ CountMessages(p)
       \/ SetTitle(p)
       \/ GenerateSave(p)
       \/ BulkLookup(p)
       \/ CleanupList(p)
       \/ CleanupNext(p)

SpecSessions ==
    InitSessions /\ [][NextSessions]_vars

-----------------------------------------------------------------------------
\* the operations that add to, read, retitle or delete a session
SessionAccesses ==
    {"insert", "read", "title", "delete_messages", "delete_session"}

\* handler p reached the store only for sessions of its own user
OwnAccessesOnly(p) ==
    \A i \in 1..Len(handlers[p].effects) :
        handlers[p].effects[i].kind \in SessionAccesses
            => /\ handlers[p].user # Anonymous
               /\ handlers[p].user = SessionOwner(handlers[p].effects[i].sid)

\* C29: a message is added to a session, and a session is read, retitled or
\* deleted, only on behalf of the authenticated user whose id is the
\* session's user_id; no endpoint, the generate endpoint called with a
\* session_id included, writes to a session of a different or an
\* unauthenticated user
C29_SessionAccessOnlyByOwner ==
    entry = "sessions" => \A p \in Procs : OwnAccessesOnly(p)

\* C30: after SessionDB.delete_session(s) has completed no message with
\* session_id s exists in the store, also when a MessageDB.add_message for
\* s runs interleaved with the two deletion steps
C30_NoMessageAfterDelete ==
    entry = "sessions" =>
        \A p \in Procs : \A s \in handlers[p].deleted :
            \A i \in 1..Len(messages) : messages[i].session_id # s

============================================================================
